---- MODULE Spec2Model ----
(***************************************************************************)
(* State-machine model of the fluxor runtime: the worker thread pool of    *)
(* ThreadManager (thread_manager.cpp), the event queue of IOBridge         *)
(* (io_bridge.cpp) whose drain task runs on that pool, and the TCP         *)
(* broadcast server of SocketManager (socket_manager.cpp).                 *)
(*                                                                         *)
(* Granularity: one action per critical section (everything a thread does  *)
(* while it holds one mutex) or per atomic operation, so every             *)
(* interleaving of the lock-protected sections is explored.                *)
(***************************************************************************)
EXTENDS Integers, Sequences, FiniteSets

\* ------------------------------------------------------------------ bounds
\* Number of submitTask calls explored.
MaxTasks == 3
\* Number of submitTask calls explored under fair scheduling.
MaxFairTasks == 2
\* Number of initializeThreadPool calls explored.
MaxInits == 2
\* Number of accepted postX calls explored.
MaxEvents == 3
\* Number of IOBridge::cleanup calls explored.
MaxCleanups == 1

\* Number of connections the peers make to the server.
MaxConns == 2
\* MAX_CLIENTS, scaled down so that the connections explored reach it.
MaxClients == 1
\* Number of sendToAllClients calls explored.
MaxMsgs == 1
\* Number of startServer calls explored.
MaxStarts == 2
\* messages passed to sendToAllClients while the server stays in service
MaxBroadcasts == 2
\* Number of createThread calls explored.
MaxThreads == 2
\* Frames a peer sends on one connection before it closes.
MaxFrames == 2
\* Threads followed together through their lock statements.
MaxLockThreads == 2
\* BUFFER_SIZE, the largest frame length the reader accepts
BUFFER_SIZE == 4096
\* The message lengths explored on the wire: around zero, around the one
\* byte boundary of the prefix, and around the maximum frame size.
FrameLengths == {0, 1, 2, 255, 256, 257, BUFFER_SIZE - 1, BUFFER_SIZE, BUFFER_SIZE + 1}
\* The first byte of the messages explored; byte i of a message is its
\* first byte plus i - 1, modulo 256.
FirstBytes == {7, 250}
\* What send() returns for the four bytes of the prefix.
PrefixReturns == {-1, 2, 4}
\* Lengths of the short payloads a reader is given.
ReaderLengths == {1, 2}

\* The poolSize arguments explored, and the largest of them.
PoolSizes == {0, 1, 2}
MaxPoolSize == CHOOSE n \in PoolSizes : \A m \in PoolSizes : m <= n

\* Identities of the pool's worker threads: fresh for every initialize call.
Workers == 1..(MaxInits * MaxPoolSize)

\* Threads that call postX, and the listener objects the host registers.
Producers == {"p1", "p2"}
Sinks == {"A", "B"}
NoSink == "null"

\* Connections in the order accept() returns them, and the descriptor
\* numbers the kernel hands out for them (the lowest free number first).
Conns == 1..MaxConns
ClientFds == 1..MaxConns
\* serverSocket_ == -1 and the listening descriptor socket() returned.
NoSocket == "-1"
ListenSocket == "listening"
\* An empty std::unique_ptr<ClientConnection>.
NoClient == [conn |-> 0, fd |-> 0]
\* The threads that call removeClient: each connection's reader thread
\* (named by its connection) and the sender thread.
SenderId == 0
Removers == Conns \cup {SenderId}
\* How startServer's system calls end: all succeed, or the named one fails.
StartOutcomes == {"ok", "socket", "setsockopt", "bind", "listen"}
\* How a send() on a snapshotted descriptor ends.
SendOutcomes == {"sent", "failed"}

\* The thread indexes passed to the registry: position i of threads_ is
\* index i - 1 of the source; one more than can be created, so that an
\* invalid index is always among them.
Handles == 1..(MaxThreads + 1)
NoCall == [op |-> "none", idx |-> 0, ret |-> FALSE]

\* How a task body ends: it returns, or it throws.
Outcomes == {"return", "throw"}
NoTask == [id |-> 0, kind |-> "none"]
\* The lambda postX submits: processEvents(); processingScheduled_ = false.
DrainTask == [id |-> 0, kind |-> "drain"]

VARIABLES
    \* ---- ThreadManager (thread pool part)
    poolThreads,    \* poolThreads_: the workers held in the vector
    wpc,            \* position of each worker thread in workerFunction
    wtask,          \* the task a worker has dequeued and is running
    wgen,           \* which initializeThreadPool call created the worker
    taskQueue,      \* taskQueue_
    stopPool,       \* stopPool_
    activeTasks,    \* activeTasks_
    \* ---- the thread that calls initializeThreadPool / shutdownThreadPool
    ctlpc,          \* its position inside the call
    ctlCall,        \* the public call it is in, or has last completed
    poolSize,       \* the poolSize argument of the last initialize call
    poolGen,        \* number of initialize calls made
    nextTask,       \* next task identity (submit order)
    \* ---- IOBridge
    jvm,                  \* jvm_ != nullptr
    listenerObject,       \* listenerObject_ (listenerClass_ is set and cleared with it)
    threadManager,        \* threadManager_ != nullptr
    processingScheduled,  \* processingScheduled_, the single-flight flag
    eventQueue,           \* eventQueue_
    ppc,                  \* position of each producer inside postX
    nextEvent,            \* next event identity (order of the push_back calls)
    wsnap,                \* eventsToProcess of the drain a worker is running
    cleanups,             \* number of cleanup calls made
    \* ---- SocketManager
    isRunning,      \* isRunning_
    stopSending,    \* stopSending_
    serverSocket,   \* serverSocket_
    clients,        \* clients_: the active list, entries [conn, fd]
    clientsMutex,   \* who holds clientsMutex_ across steps ("free" or "sender")
    sendQueue,      \* sendQueue_
    srvpc,          \* position of the thread calling startServer / stopServer
    acceptpc,       \* position of acceptThread_ in acceptConnections
    accepted,       \* the connection accept() last returned to the accept thread
    hpc,            \* position of each connection's handlerThread
    sendpc,         \* position of sendThread_ in sendWorker
    clientSockets,  \* the sender's snapshot still to be written to
    toRemove,       \* the sender's toRemove list
    message,        \* the message the sender has popped and is sending, or 0
    clientToRemove, \* removeClient's local, per calling thread
    pending,        \* the message a sendToAllClients call that has passed the test of
                    \* the running flag is about to push, or 0
    count,          \* notifyConnectionChange's local count in the accept thread
    \* ---- the kernel and the peers
    listenOpen,     \* a listening socket of the process is open
    openFds,        \* client descriptor numbers in use
    connFd,         \* descriptor number accept() gave each connection, or 0
    nextConn,       \* next connection identity
    nextMsg,        \* next outbound message identity
    starts,         \* number of startServer calls made
    abort,          \* "none", or why the process was terminated
    \* ---- ThreadManager (registry of created threads)
    nthreads,       \* threads_.size()
    tstate,         \* ThreadInfo::state of each handle
    joinable,       \* thread->joinable() of each handle
    tpc,            \* position of each created thread in its lambda
    managerMutex,   \* 0, or the handle whose join() holds managerMutex_
    lastCall,       \* history: the last joinThread / detachThread call and its result
    released,       \* history: the handles a join or detach has returned true for
    \* ---- one message on one socket, byte by byte (sendWorker's write loop)
    payload,        \* message: the bytes of the message being sent
    wire,           \* the bytes the socket has taken so far
    fpc,            \* position in the loop body: "prefix", "payload", "done", "removed"
    totalSent,      \* totalSent
    \* ---- one reader and its peer, byte by byte (handleClient's loop)
    peerFrames,     \* the frames the peer has sent before closing: declared length and bytes
    rpos,           \* number of bytes of the peer's stream recv has returned so far
    rpc,            \* position in the loop: "prefix", "payload", "forward", or how it was
                    \* left: "stopped" (loop test), "failed" (recv error), "closed"
                    \* (the peer has closed), "invalid" (length check)
    messageLen,     \* messageLen
    buffer,         \* buffer, up to the last byte ever written to it
    totalReceived,  \* totalReceived
    forwarded,      \* history: the postStringEvent calls the reader has made, in order
    \* ---- the mutexes, for the threads followed through their lock statements
    owner,          \* the thread that holds each mutex, or NoThread
    lpc,            \* each thread's position in its sequence of lock statements (0: not followed)
    \* ---- observation of the server (history, never read by the program)
    startRet,       \* what the last startServer call returned
    countEvent,     \* <<n>>: the value last passed to postIntEvent("socket_client_count")
    strayRemoval,   \* <<[target, removed]>>: an erase by removeClient that took another
                    \* connection than the one it was called for
    received,       \* the messages written to each connection's socket, in order
    \* ---- observation of the run (history, never read by the program)
    taskLog,        \* tasks in the order workers dequeued them
    rejected,       \* tasks passed to submitTask while the stop flag was set
    atStop,         \* tasks queued when the last shutdown set the stop flag
    discarded,      \* tasks thrown away by shutdown's final queue swap
    lastCaught,     \* the worker that last caught a task's exception, or 0
    delivered,      \* the callback sink's calls, in order: event and listener
    failedIn        \* the last sink call that failed: its worker and event, and the
                    \* events then left in the worker's snapshot

workerVars == <<wpc, wtask, taskQueue, activeTasks>>
ctlVars == <<ctlpc, ctlCall, poolSize, poolGen>>
poolHist == <<taskLog, rejected, atStop, discarded, lastCaught>>
bridgeVars == <<jvm, listenerObject, threadManager, processingScheduled,
                eventQueue, ppc, nextEvent, wsnap, cleanups, delivered, failedIn>>

serverState == <<isRunning, stopSending, serverSocket, clients, clientsMutex, sendQueue,
                 acceptpc, accepted, hpc, sendpc, clientSockets, toRemove, message, clientToRemove>>
kernelVars == <<listenOpen, openFds, connFd, nextConn>>
serverHist == <<countEvent, strayRemoval, received>>
raceVars == <<pending, count>>
serverVars == <<serverState, kernelVars, srvpc, nextMsg, starts, abort, startRet, serverHist,
                raceVars>>
runtimeVars == <<poolThreads, wgen, stopPool, nextTask, workerVars, ctlVars, poolHist, bridgeVars>>

frameVars == <<payload, wire, fpc, totalSent>>
registryState == <<nthreads, tstate, joinable, tpc, managerMutex>>
registryVars == <<registryState, lastCall, released>>

readerVars == <<peerFrames, rpos, rpc, messageLen, buffer, totalReceived, forwarded>>
lockVars == <<owner, lpc>>

vars == <<runtimeVars, serverVars, frameVars, registryVars, readerVars, lockVars>>

Range(s) == {s[i] : i \in 1..Len(s)}
RemoveAt(s, i) == [j \in 1..(Len(s) - 1) |-> IF j < i THEN s[j] ELSE s[j + 1]]

\* ------------------------------------------------------------ ThreadManager

\* condition_.wait predicate: stopPool_ || !taskQueue_.empty()
WaitPredicate == stopPool \/ taskQueue # <<>>

WorkerExitsOnStopFlag == stopPool
\* The worker's exit test after waking.
WorkerExits == stopPool /\ taskQueue = <<>>

PopIndexBack(q) == Len(q)
\* Which element of the queue a worker takes: front(), then pop().
PopIndex(q) == 1

AfterTaskUncaught(outcome) == IF outcome = "throw" THEN "exited" ELSE "check"
\* Where the worker is once the task body has ended, normally or by an
\* exception: try { task(); } catch (...) {} falls through to the loop head.
AfterTask(outcome) == "check"

SubmitAlways == TRUE
\* submitTask's test under the queue lock: a stopped pool takes nothing.
SubmitAccepted == ~stopPool

NeverShutdownFirst == FALSE
\* initializeThreadPool's test: an existing pool is shut down first.
MustShutdownFirst == poolThreads # {}

WokenByNothing(blocked) == {}
\* condition_.notify_all(): every worker blocked in wait is woken.
WokenByNotifyAll(blocked) == blocked

Blocked == {w \in Workers : wpc[w] = "blocked"}

\* condition_.notify_one(): one blocked worker, if any, is woken.
NotifyOne(w) == IF Blocked # {} THEN w \in Blocked ELSE w = 0

\* A dequeued drain lambda starts in processEvents; any other task runs.
StartPc(kind) == IF kind = "drain" THEN "drain" ELSE "run"

\* One pass of the worker's critical section: wait's predicate test and,
\* when it holds, the exit test and the dequeue, all under queueMutex_.
WorkerCheck(w) ==
    /\ wpc[w] = "check"
    /\ IF ~WaitPredicate
       THEN /\ wpc' = [wpc EXCEPT ![w] = "blocked"]
            /\ UNCHANGED <<wtask, taskQueue, activeTasks, taskLog>>
       ELSE IF WorkerExits
       THEN /\ wpc' = [wpc EXCEPT ![w] = "exited"]
            /\ UNCHANGED <<wtask, taskQueue, activeTasks, taskLog>>
       ELSE /\ taskQueue # <<>>
            /\ LET t == taskQueue[PopIndex(taskQueue)] IN
               /\ wtask' = [wtask EXCEPT ![w] = t]
               /\ wpc' = [wpc EXCEPT ![w] = StartPc(t.kind)]
               /\ taskLog' = IF t.kind = "drain" THEN taskLog ELSE Append(taskLog, t.id)
            /\ taskQueue' = RemoveAt(taskQueue, PopIndex(taskQueue))
            /\ activeTasks' = activeTasks + 1
    /\ UNCHANGED <<poolThreads, wgen, stopPool, nextTask, ctlVars,
                   rejected, atStop, discarded, lastCaught, bridgeVars, serverVars, frameVars, readerVars, lockVars, registryVars>>

\* A condition variable may wake a waiter with no notification; the
\* predicate is then tested again.
SpuriousWakeup(w) ==
    /\ wpc[w] = "blocked"
    /\ wpc' = [wpc EXCEPT ![w] = "check"]
    /\ UNCHANGED <<poolThreads, wgen, stopPool, nextTask, wtask, taskQueue, activeTasks,
                   ctlVars, poolHist, bridgeVars, serverVars, frameVars, readerVars, lockVars, registryVars>>

\* The task body ends (it returns, or throws and the throw is caught);
\* activeTasks_-- and back to the head of the loop.
FinishTask(w, outcome) ==
    /\ wpc[w] = "run"
    /\ wpc' = [wpc EXCEPT ![w] = AfterTask(outcome)]
    /\ wtask' = [wtask EXCEPT ![w] = NoTask]
    /\ activeTasks' = activeTasks - 1
    /\ lastCaught' = IF outcome = "throw" THEN w ELSE lastCaught
    /\ UNCHANGED <<poolThreads, wgen, stopPool, nextTask, taskQueue, ctlVars,
                   taskLog, rejected, atStop, discarded, bridgeVars, serverVars, frameVars, readerVars, lockVars, registryVars>>

\* The pool's part of a submitTask call, as a function of the worker
\* positions the caller leaves behind: push under the lock unless stopped,
\* then notify_one.
Submit(t, pcs) ==
    IF SubmitAccepted
    THEN /\ taskQueue' = Append(taskQueue, t)
         /\ \E w \in Workers \cup {0} :
               /\ NotifyOne(w)
               /\ wpc' = [x \in Workers |-> IF x = w THEN "check" ELSE pcs[x]]
    ELSE /\ taskQueue' = taskQueue
         /\ wpc' = pcs

\* submitTask(task) called by any thread with a fresh task.
SubmitTask ==
    /\ Submit([id |-> nextTask, kind |-> "task"], wpc)
    /\ rejected' = IF stopPool THEN rejected \cup {nextTask} ELSE rejected
    /\ nextTask' = nextTask + 1
    /\ UNCHANGED <<poolThreads, wgen, stopPool, wtask, activeTasks, ctlVars,
                   taskLog, atStop, discarded, lastCaught, bridgeVars, serverVars, frameVars, readerVars, lockVars, registryVars>>

\* shutdownThreadPool() is entered.
CallShutdown ==
    /\ ctlpc = "idle"
    /\ ctlpc' = "sd_stop"
    /\ ctlCall' = "shutdown"
    /\ UNCHANGED <<poolThreads, wgen, stopPool, nextTask, workerVars,
                   poolSize, poolGen, poolHist, bridgeVars, serverVars, frameVars, readerVars, lockVars, registryVars>>

\* stopPool_ = true under the lock, then notify_all.
ShutdownStop ==
    /\ ctlpc = "sd_stop"
    /\ stopPool' = TRUE
    /\ wpc' = [w \in Workers |->
                 IF w \in WokenByNotifyAll(Blocked) THEN "check" ELSE wpc[w]]
    /\ atStop' = {t.id : t \in {x \in Range(taskQueue) : x.kind = "task"}}
    /\ ctlpc' = "sd_join"
    /\ UNCHANGED <<poolThreads, wgen, nextTask, wtask, taskQueue, activeTasks,
                   ctlCall, poolSize, poolGen,
                   taskLog, rejected, discarded, lastCaught, bridgeVars, serverVars, frameVars, readerVars, lockVars, registryVars>>

\* The join loop: it gets past a thread only when that worker has returned.
ShutdownJoin ==
    /\ ctlpc = "sd_join"
    /\ \A w \in poolThreads : wpc[w] = "exited"
    /\ ctlpc' = "sd_clear"
    /\ UNCHANGED <<poolThreads, wgen, stopPool, nextTask, workerVars,
                   ctlCall, poolSize, poolGen, poolHist, bridgeVars, serverVars, frameVars, readerVars, lockVars, registryVars>>

\* poolThreads_.clear() destroys the joined thread objects; then
\* taskQueue_ is swapped with an empty queue.
ShutdownClear ==
    /\ ctlpc = "sd_clear"
    /\ poolThreads' = {}
    /\ wpc' = [w \in Workers |-> IF w \in poolThreads THEN "none" ELSE wpc[w]]
    /\ discarded' = discarded \cup {t.id : t \in {x \in Range(taskQueue) : x.kind = "task"}}
    /\ taskQueue' = <<>>
    /\ ctlpc' = IF ctlCall = "initialize" THEN "init_reset" ELSE "idle"
    /\ UNCHANGED <<wgen, stopPool, nextTask, wtask, activeTasks,
                   ctlCall, poolSize, poolGen,
                   taskLog, rejected, atStop, lastCaught, bridgeVars, serverVars, frameVars, readerVars, lockVars, registryVars>>

\* initializeThreadPool(n) is entered.
CallInitialize(n) ==
    /\ ctlpc = "idle"
    /\ poolGen < MaxInits
    /\ ctlCall' = "initialize"
    /\ poolSize' = n
    /\ poolGen' = poolGen + 1
    /\ ctlpc' = IF MustShutdownFirst THEN "sd_stop" ELSE "init_reset"
    /\ UNCHANGED <<poolThreads, wgen, stopPool, nextTask, workerVars, poolHist, bridgeVars, serverVars, frameVars, readerVars, lockVars, registryVars>>

\* stopPool_ = false; activeTasks_ = 0, under the lock.
InitReset ==
    /\ ctlpc = "init_reset"
    /\ stopPool' = FALSE
    /\ activeTasks' = 0
    /\ ctlpc' = "init_spawn"
    /\ UNCHANGED <<poolThreads, wgen, nextTask, wpc, wtask, taskQueue,
                   ctlCall, poolSize, poolGen, poolHist, bridgeVars, serverVars, frameVars, readerVars, lockVars, registryVars>>

\* The workers this initialize call creates.
NewWorkers == {w \in Workers : /\ (poolGen - 1) * MaxPoolSize < w
                               /\ w <= (poolGen - 1) * MaxPoolSize + poolSize}

\* The emplace_back loop: poolSize threads start in workerFunction.
InitSpawn ==
    /\ ctlpc = "init_spawn"
    /\ poolThreads' = poolThreads \cup NewWorkers
    /\ wpc' = [w \in Workers |-> IF w \in NewWorkers THEN "check" ELSE wpc[w]]
    /\ wgen' = [w \in Workers |-> IF w \in NewWorkers THEN poolGen ELSE wgen[w]]
    /\ ctlpc' = "idle"
    /\ UNCHANGED <<stopPool, nextTask, wtask, taskQueue, activeTasks,
                   ctlCall, poolSize, poolGen, poolHist, bridgeVars, serverVars, frameVars, readerVars, lockVars, registryVars>>

\* ----------------------------------------------------------------- IOBridge

\* isInitialized(): jvm_ != nullptr && listenerObject_ != nullptr
IsInitialized == jvm /\ listenerObject # NoSink

QueueAfterCopy(q) == q
\* What processEvents leaves in eventQueue_: the contents are moved into
\* eventsToProcess and the queue is cleared.
QueueAfterSwap(q) == <<>>

\* compare_exchange_strong(expected = false, true) succeeds.
CasAcquires == ~processingScheduled

\* initialize(jvm): returns at once when already initialized.
Initialize ==
    /\ ~jvm
    /\ jvm' = TRUE
    /\ UNCHANGED <<poolThreads, wgen, stopPool, nextTask, workerVars, ctlVars, poolHist,
                   listenerObject, threadManager, processingScheduled,
                   eventQueue, ppc, nextEvent, wsnap, cleanups, delivered, failedIn, serverVars, frameVars, readerVars, lockVars, registryVars>>

\* setThreadManager(threadManager) with the host's ThreadManager.
SetThreadManager ==
    /\ ~threadManager
    /\ threadManager' = TRUE
    /\ UNCHANGED <<poolThreads, wgen, stopPool, nextTask, workerVars, ctlVars, poolHist,
                   jvm, listenerObject, processingScheduled,
                   eventQueue, ppc, nextEvent, wsnap, cleanups, delivered, failedIn, serverVars, frameVars, readerVars, lockVars, registryVars>>

\* registerListener(env, listener): refused before initialize; otherwise the
\* previous references are released and the new listener is installed.
RegisterListener(s) ==
    /\ jvm
    /\ listenerObject' = s
    /\ UNCHANGED <<poolThreads, wgen, stopPool, nextTask, workerVars, ctlVars, poolHist,
                   jvm, threadManager, processingScheduled,
                   eventQueue, ppc, nextEvent, wsnap, cleanups, delivered, failedIn, serverVars, frameVars, readerVars, lockVars, registryVars>>

\* unregisterListener(env)
UnregisterListener ==
    /\ listenerObject # NoSink
    /\ listenerObject' = NoSink
    /\ UNCHANGED <<poolThreads, wgen, stopPool, nextTask, workerVars, ctlVars, poolHist,
                   jvm, threadManager, processingScheduled,
                   eventQueue, ppc, nextEvent, wsnap, cleanups, delivered, failedIn, serverVars, frameVars, readerVars, lockVars, registryVars>>

\* cleanup(): the listener references are released, the single-flight flag
\* is reset, the queue is cleared under the lock and jvm_ is forgotten.
Cleanup ==
    /\ cleanups < MaxCleanups
    /\ cleanups' = cleanups + 1
    /\ listenerObject' = NoSink
    /\ processingScheduled' = FALSE
    /\ eventQueue' = <<>>
    /\ jvm' = FALSE
    /\ UNCHANGED <<poolThreads, wgen, stopPool, nextTask, workerVars, ctlVars, poolHist,
                   threadManager, ppc, nextEvent, wsnap, delivered, failedIn, serverVars, frameVars, readerVars, lockVars, registryVars>>

PostAlwaysAccepted == TRUE
\* postX's first test: if (!isInitialized()) return;
PostAccepted == IsInitialized

\* postX on a bridge that is not initialized or has no listener: the call
\* is at its early return, with nothing touched.
PostRefused(p) ==
    /\ ppc[p] = "idle"
    /\ ~PostAccepted
    /\ ppc' = [ppc EXCEPT ![p] = "refused"]
    /\ UNCHANGED <<poolThreads, wgen, stopPool, nextTask, workerVars, ctlVars, poolHist,
                   jvm, listenerObject, threadManager, processingScheduled, eventQueue,
                   nextEvent, wsnap, cleanups, delivered, failedIn, serverVars, frameVars, readerVars, lockVars, registryVars>>

\* The refused postX call returns to its caller.
PostReturn(p) ==
    /\ ppc[p] = "refused"
    /\ ppc' = [ppc EXCEPT ![p] = "idle"]
    /\ UNCHANGED <<poolThreads, wgen, stopPool, nextTask, workerVars, ctlVars, poolHist,
                   jvm, listenerObject, threadManager, processingScheduled, eventQueue,
                   nextEvent, wsnap, cleanups, delivered, failedIn, serverVars, frameVars, readerVars, lockVars, registryVars>>

\* postX, first half: the isInitialized test (a refused post returns with
\* nothing changed) and the push_back under the queue lock. The event
\* record notes its producer and the listener registered at the time of the
\* post.
PostPush(p) ==
    /\ ppc[p] = "idle"
    /\ nextEvent <= MaxEvents
    /\ PostAccepted
    /\ eventQueue' = Append(eventQueue, [id |-> nextEvent, prod |-> p,
                                         listener |-> listenerObject])
    /\ nextEvent' = nextEvent + 1
    /\ ppc' = [ppc EXCEPT ![p] = "sched"]
    /\ UNCHANGED <<poolThreads, wgen, stopPool, nextTask, workerVars, ctlVars, poolHist,
                   jvm, listenerObject, threadManager, processingScheduled,
                   wsnap, cleanups, delivered, failedIn, serverVars, frameVars, readerVars, lockVars, registryVars>>

\* postX, second half: with a thread manager, the compare-and-swap on the
\* single-flight flag and, if it was won, submitTask of the drain lambda.
PostSchedule(p) ==
    /\ ppc[p] = "sched"
    /\ ppc' = [ppc EXCEPT ![p] = "idle"]
    /\ IF threadManager /\ CasAcquires
       THEN /\ processingScheduled' = TRUE
            /\ Submit(DrainTask, wpc)
       ELSE UNCHANGED <<processingScheduled, taskQueue, wpc>>
    /\ UNCHANGED <<poolThreads, wgen, stopPool, nextTask, wtask, activeTasks, ctlVars, poolHist,
                   jvm, listenerObject, threadManager,
                   eventQueue, nextEvent, wsnap, cleanups, delivered, failedIn, serverVars, frameVars, readerVars, lockVars, registryVars>>

\* processEvents, entry: return at once without a JVM or a listener;
\* otherwise take the whole queue into eventsToProcess under the lock.
DrainBegin(w) ==
    /\ wpc[w] = "drain"
    /\ wpc' = [wpc EXCEPT ![w] = "deliver"]
    /\ IF IsInitialized
       THEN /\ wsnap' = [wsnap EXCEPT ![w] = eventQueue]
            /\ eventQueue' = QueueAfterSwap(eventQueue)
       ELSE UNCHANGED <<wsnap, eventQueue>>
    /\ UNCHANGED <<poolThreads, wgen, stopPool, nextTask, wtask, taskQueue, activeTasks,
                   ctlVars, poolHist, jvm, listenerObject, threadManager,
                   processingScheduled, ppc, nextEvent, cleanups, delivered, failedIn, serverVars, frameVars, readerVars, lockVars, registryVars>>

\* What a call of the listener's method does: it returns, or it throws.
SinkOutcomes == {"returned", "threw"}
NoFailure == [w |-> 0, ev |-> 0, rest |-> <<>>]

BatchDroppedOnFailure(batch, outcome) == IF outcome = "threw" THEN <<>> ELSE Tail(batch)
\* The events the delivery loop still has to go through after one turn.
\* A Java exception left pending by the callback is described and cleared
\* at the end of the turn, and the for loop goes on with the next event.
RestOfBatch(batch, outcome) == Tail(batch)

\* processEvents, one turn of the delivery loop: the type-specific callback
\* calls the listener, or returns without a call when there is none.
Deliver(w, outcome) ==
    /\ wpc[w] = "deliver"
    /\ wsnap[w] # <<>>
    /\ delivered' = IF listenerObject # NoSink
                    THEN Append(delivered, [ev |-> Head(wsnap[w]), sink |-> listenerObject])
                    ELSE delivered
    /\ wsnap' = [wsnap EXCEPT ![w] = RestOfBatch(wsnap[w], outcome)]
    /\ UNCHANGED <<poolThreads, wgen, stopPool, nextTask, workerVars, ctlVars, poolHist,
                   jvm, listenerObject, threadManager, processingScheduled,
                   eventQueue, ppc, nextEvent, cleanups, serverVars, frameVars, readerVars, lockVars, registryVars>>

\* The turn in which the listener's method returns normally.
DrainDeliver(w) ==
    /\ Deliver(w, "returned")
    /\ failedIn' = failedIn

\* The turn in which the listener's method throws.
DrainDeliverThrows(w) ==
    /\ listenerObject # NoSink
    /\ Deliver(w, "threw")
    /\ failedIn' = [w |-> w, ev |-> Head(wsnap[w]).id, rest |-> Tail(wsnap[w])]

\* The drain lambda after processEvents has returned:
\* processingScheduled_ = false, and the worker is back in its loop.
DrainClear(w) ==
    /\ wpc[w] = "deliver"
    /\ wsnap[w] = <<>>
    /\ processingScheduled' = FALSE
    /\ wpc' = [wpc EXCEPT ![w] = AfterTask("return")]
    /\ wtask' = [wtask EXCEPT ![w] = NoTask]
    /\ activeTasks' = activeTasks - 1
    /\ UNCHANGED <<poolThreads, wgen, stopPool, nextTask, taskQueue, ctlVars, poolHist,
                   jvm, listenerObject, threadManager,
                   eventQueue, ppc, nextEvent, wsnap, cleanups, delivered, failedIn, serverVars, frameVars, readerVars, lockVars, registryVars>>

\* ------------------------------------------------------------ SocketManager

\* The process is running: std::terminate has not been called.
Live == abort = "none"

StartNeverRefused == FALSE
\* startServer's first test: a running server refuses to start.
StartRefused == isRunning

ListenLeftOpenAfterFailure(outcome) == outcome # "socket"
\* Whether a failed startServer leaves a listening socket open: a failed
\* socket() opened none, and every later failure closes it before returning.
ListenOpenAfterFailure(outcome) == FALSE

NeverAtCapacity(n) == FALSE
\* The accept loop's test under the list lock: clients_.size() >= MAX_CLIENTS
AtCapacity(n) == n >= MaxClients

ListNotErased(l, i) == l
\* clients_.erase(it)
ListAfterErase(l, i) == RemoveAt(l, i)

MutexKeptAfterSnapshot == "sender"
\* The holder of clientsMutex_ once the sender's snapshot block has ended:
\* the lock_guard goes out of scope before the first send.
MutexAfterSnapshot == "free"

\* accept() gives the new socket the lowest descriptor number not in use.
FreshFd == CHOOSE f \in ClientFds \ openFds : \A g \in ClientFds \ openFds : f <= g

\* removeClient's search: the positions of the entries with this socketFd,
\* and the first of them.
Found(fd) == {i \in 1..Len(clients) : clients[i].fd = fd}
FirstFound(fd) == CHOOSE i \in Found(fd) : \A j \in Found(fd) : i <= j

\* getConnectedClientCount(): the entries whose isConnected is set. The
\* flag is set on construction and cleared only in the critical section
\* that takes the entry out of the list, so under the lock it is every entry.
ConnectedClientCount == Len(clients)

\* startServer(port), by the thread that controls the server.
StartServer(outcome) ==
    /\ Live
    /\ srvpc = "idle"
    /\ starts < MaxStarts
    /\ starts' = starts + 1
    /\ IF StartRefused
       THEN /\ startRet' = "refused"
            /\ UNCHANGED <<isRunning, stopSending, serverSocket, listenOpen, acceptpc, sendpc>>
       ELSE IF outcome # "ok"
       THEN /\ startRet' = "failed"
            /\ serverSocket' = NoSocket
            /\ listenOpen' = ListenOpenAfterFailure(outcome)
            /\ UNCHANGED <<isRunning, stopSending, acceptpc, sendpc>>
       ELSE /\ startRet' = "started"
            /\ serverSocket' = ListenSocket
            /\ listenOpen' = TRUE
            /\ isRunning' = TRUE
            /\ stopSending' = FALSE
            /\ acceptpc' = "accept"
            /\ sendpc' = "wait"
    /\ UNCHANGED <<runtimeVars, frameVars, readerVars, lockVars, registryVars, raceVars, clients, clientsMutex, sendQueue, accepted, hpc,
                   clientSockets, toRemove, message, clientToRemove,
                   openFds, connFd, nextConn,
                   srvpc, nextMsg, abort, serverHist>>

\* stopServer() on a running server (it returns at once on a stopped one):
\* the two flags are cleared and set and the listening socket is closed.
StopFlags ==
    /\ Live
    /\ srvpc = "idle"
    /\ isRunning
    /\ isRunning' = FALSE
    /\ stopSending' = TRUE
    /\ serverSocket' = NoSocket
    /\ listenOpen' = FALSE
    /\ srvpc' = "stop_clients"
    /\ UNCHANGED <<runtimeVars, frameVars, readerVars, lockVars, registryVars, raceVars, clients, clientsMutex, sendQueue, acceptpc, accepted, hpc,
                   sendpc, clientSockets, toRemove, message, clientToRemove,
                   openFds, connFd, nextConn,
                   nextMsg, starts, abort, startRet, serverHist>>

\* stopServer, under the list lock: every client is marked disconnected and
\* its socket closed, then clients_.clear() destroys the ClientConnection
\* objects. Their handlerThread members are joinable (nothing has joined or
\* detached them), and destroying a joinable std::thread calls
\* std::terminate.
StopClients ==
    /\ Live
    /\ srvpc = "stop_clients"
    /\ clientsMutex = "free"
    /\ openFds' = openFds \ {clients[i].fd : i \in 1..Len(clients)}
    /\ clients' = <<>>
    /\ IF clients = <<>>
       THEN srvpc' = "stop_notify" /\ abort' = abort
       ELSE srvpc' = srvpc /\ abort' = "thread_destroyed"
    /\ UNCHANGED <<runtimeVars, frameVars, readerVars, lockVars, registryVars, raceVars, isRunning, stopSending, serverSocket, clientsMutex, sendQueue,
                   acceptpc, accepted, hpc, sendpc, clientSockets, toRemove, message, clientToRemove,
                   listenOpen, connFd, nextConn,
                   nextMsg, starts, startRet, serverHist>>

\* stopServer: sendCondition_.notify_all(), with no lock held. It wakes the
\* sender only if the sender is blocked in wait at this moment.
StopNotify ==
    /\ Live
    /\ srvpc = "stop_notify"
    /\ sendpc' = IF sendpc = "blocked" THEN "wait" ELSE sendpc
    /\ srvpc' = "stop_join"
    /\ UNCHANGED <<runtimeVars, frameVars, readerVars, lockVars, registryVars, raceVars, isRunning, stopSending, serverSocket, clients, clientsMutex,
                   sendQueue, acceptpc, accepted, hpc, clientSockets, toRemove, message, clientToRemove,
                   kernelVars, nextMsg, starts, abort, startRet, serverHist>>

\* stopServer: acceptThread_.join() and sendThread_.join() return when the
\* two threads have; stopServer returns.
StopJoin ==
    /\ Live
    /\ srvpc = "stop_join"
    /\ acceptpc = "exited"
    /\ sendpc = "exited"
    /\ acceptpc' = "none"
    /\ sendpc' = "none"
    /\ srvpc' = "idle"
    /\ UNCHANGED <<runtimeVars, frameVars, readerVars, lockVars, registryVars, raceVars, isRunning, stopSending, serverSocket, clients, clientsMutex,
                   sendQueue, accepted, hpc, clientSockets, toRemove, message, clientToRemove,
                   kernelVars, nextMsg, starts, abort, startRet, serverHist>>

\* acceptConnections at accept(): it fails once stopServer has cleared the
\* running flag and closed the listening socket (the loop is left at its
\* test or at the failed accept), or it returns the socket of a new
\* connection.
AcceptReturn ==
    /\ Live
    /\ acceptpc = "accept"
    /\ IF ~listenOpen
       THEN /\ acceptpc' = "exited"
            /\ UNCHANGED <<accepted, openFds, connFd, nextConn>>
       ELSE /\ nextConn <= MaxConns
            /\ accepted' = [conn |-> nextConn, fd |-> FreshFd]
            /\ openFds' = openFds \cup {FreshFd}
            /\ connFd' = [connFd EXCEPT ![nextConn] = FreshFd]
            /\ nextConn' = nextConn + 1
            /\ acceptpc' = "check"
    /\ UNCHANGED <<runtimeVars, frameVars, readerVars, lockVars, registryVars, raceVars, isRunning, stopSending, serverSocket, clients, clientsMutex,
                   sendQueue, hpc, sendpc, clientSockets, toRemove, message, clientToRemove,
                   listenOpen,
                   srvpc, nextMsg, starts, abort, startRet, serverHist>>

\* acceptConnections after accept: a stopped server closes the socket and
\* leaves the loop; a full list (tested under the lock) closes it and goes
\* on; otherwise the ClientConnection is made and its handler thread
\* started, before the connection is in the list.
AcceptCheck ==
    /\ Live
    /\ acceptpc = "check"
    /\ clientsMutex = "free"
    /\ IF ~isRunning \/ AtCapacity(Len(clients))
       THEN /\ openFds' = openFds \ {accepted.fd}
            /\ acceptpc' = IF ~isRunning THEN "exited" ELSE "accept"
            /\ accepted' = NoClient
            /\ hpc' = hpc
       ELSE /\ hpc' = [hpc EXCEPT ![accepted.conn] = "recv"]
            /\ acceptpc' = "push"
            /\ UNCHANGED <<openFds, accepted>>
    /\ UNCHANGED <<runtimeVars, frameVars, readerVars, lockVars, registryVars, raceVars, isRunning, stopSending, serverSocket, clients, clientsMutex,
                   sendQueue, sendpc, clientSockets, toRemove, message, clientToRemove,
                   listenOpen, connFd, nextConn,
                   srvpc, nextMsg, starts, abort, startRet, serverHist>>

\* acceptConnections: clients_.push_back(std::move(client)) under the lock.
AcceptPush ==
    /\ Live
    /\ acceptpc = "push"
    /\ clientsMutex = "free"
    /\ clients' = Append(clients, accepted)
    /\ accepted' = NoClient
    /\ acceptpc' = "notify"
    /\ UNCHANGED <<runtimeVars, frameVars, readerVars, lockVars, registryVars, raceVars, isRunning, stopSending, serverSocket, clientsMutex,
                   sendQueue, hpc, sendpc, clientSockets, toRemove, message, clientToRemove,
                   kernelVars, srvpc, nextMsg, starts, abort, startRet, serverHist>>

\* acceptConnections: notifyConnectionChange(), then back to the loop.
AcceptNotify ==
    /\ Live
    /\ acceptpc = "notify"
    /\ clientsMutex = "free"
    /\ countEvent' = <<ConnectedClientCount>>
    /\ acceptpc' = "accept"
    /\ UNCHANGED <<runtimeVars, frameVars, readerVars, lockVars, registryVars, raceVars, isRunning, stopSending, serverSocket, clients, clientsMutex,
                   sendQueue, accepted, hpc, sendpc, clientSockets, toRemove, message, clientToRemove,
                   kernelVars, srvpc, nextMsg, starts, abort, startRet, strayRemoval, received>>

\* notifyConnectionChange in the accept thread, first statement:
\* getConnectedClientCount() reads the count under the list lock.
AcceptCount ==
    /\ Live
    /\ acceptpc = "notify"
    /\ clientsMutex = "free"
    /\ count' = ConnectedClientCount
    /\ acceptpc' = "post"
    /\ UNCHANGED <<runtimeVars, frameVars, readerVars, lockVars, registryVars, pending, isRunning, stopSending, serverSocket, clients, clientsMutex,
                   sendQueue, accepted, hpc, sendpc, clientSockets, toRemove, message, clientToRemove,
                   kernelVars, srvpc, nextMsg, starts, abort, startRet, serverHist>>

\* notifyConnectionChange in the accept thread, second statement:
\* postIntEvent("socket_client_count", count), with no lock of the server
\* held; then back to the loop.
AcceptPost ==
    /\ Live
    /\ acceptpc = "post"
    /\ countEvent' = <<count>>
    /\ count' = 0
    /\ acceptpc' = "accept"
    /\ UNCHANGED <<runtimeVars, frameVars, readerVars, lockVars, registryVars, pending, isRunning, stopSending, serverSocket, clients, clientsMutex,
                   sendQueue, accepted, hpc, sendpc, clientSockets, toRemove, message, clientToRemove,
                   kernelVars, srvpc, nextMsg, starts, abort, startRet, strayRemoval, received>>

\* accept() fails on the open listening socket (ECONNABORTED, EMFILE,
\* ENFILE, ENOMEM, EINTR ...): the error is logged and the loop is left by
\* the break, whatever the running flag says.
AcceptFails ==
    /\ Live
    /\ acceptpc = "accept"
    /\ listenOpen
    /\ acceptpc' = "exited"
    /\ UNCHANGED <<runtimeVars, frameVars, readerVars, lockVars, registryVars, raceVars, isRunning, stopSending, serverSocket, clients, clientsMutex,
                   sendQueue, accepted, hpc, sendpc, clientSockets, toRemove, message, clientToRemove,
                   kernelVars, srvpc, nextMsg, starts, abort, startRet, serverHist>>

\* handleClient leaves its loop: the running flag is clear at the loop
\* test, or recv returns short because the peer has closed (which it may
\* at any moment) or because the socket was closed under the reader.
HandleDisconnect(c) ==
    /\ Live
    /\ hpc[c] = "recv"
    /\ hpc' = [hpc EXCEPT ![c] = "remove"]
    /\ UNCHANGED <<runtimeVars, frameVars, readerVars, lockVars, registryVars, raceVars, isRunning, stopSending, serverSocket, clients, clientsMutex,
                   sendQueue, acceptpc, accepted, sendpc, clientSockets, toRemove, message, clientToRemove,
                   kernelVars, srvpc, nextMsg, starts, abort, startRet, serverHist>>

\* removeClient(fd), first part, called by thread r on behalf of the
\* connection target: under the lock the first entry with that socketFd is
\* moved out of the list and erased; outside the lock its socket is closed.
RemoveErase(r, fd, target) ==
    /\ clientsMutex = "free"
    /\ IF Found(fd) = {}
       THEN /\ clientToRemove' = [clientToRemove EXCEPT ![r] = NoClient]
            /\ UNCHANGED <<clients, openFds, strayRemoval>>
       ELSE LET e == clients[FirstFound(fd)] IN
            /\ clientToRemove' = [clientToRemove EXCEPT ![r] = e]
            /\ clients' = ListAfterErase(clients, FirstFound(fd))
            /\ openFds' = openFds \ {e.fd}
            /\ strayRemoval' = IF e.conn # target
                               THEN <<[target |-> target, removed |-> e.conn]>>
                               ELSE strayRemoval

\* The thread r is about to join its own std::thread object.
JoinsItself(r) == clientToRemove[r].conn = r

\* removeClient, second part: handlerThread.join() returns when the
\* handler has, then notifyConnectionChange().
RemoveJoin(r) ==
    /\ clientToRemove[r] # NoClient
    /\ ~JoinsItself(r)
    /\ hpc[clientToRemove[r].conn] = "exited"
    /\ clientsMutex = "free"
    /\ countEvent' = <<ConnectedClientCount>>
    /\ clientToRemove' = [clientToRemove EXCEPT ![r] = NoClient]

\* handleClient, client_disconnected: removeClient(clientSocket) with the
\* reader's own descriptor number.
HandleRemove(c) ==
    /\ Live
    /\ hpc[c] = "remove"
    /\ RemoveErase(c, connFd[c], c)
    /\ hpc' = [hpc EXCEPT ![c] = IF Found(connFd[c]) = {} THEN "exited" ELSE "join"]
    /\ UNCHANGED <<runtimeVars, frameVars, readerVars, lockVars, registryVars, raceVars, isRunning, stopSending, serverSocket, clientsMutex,
                   sendQueue, acceptpc, accepted, sendpc, clientSockets, toRemove, message,
                   listenOpen, connFd, nextConn,
                   srvpc, nextMsg, starts, abort, startRet, countEvent, received>>

\* The reader inside removeClient at handlerThread.join(). Joining another
\* connection's handler waits for it. Joining its own thread object makes
\* join() throw std::system_error (resource_deadlock_would_occur) out of
\* the thread function, and std::terminate is called.
HandleJoin(c) ==
    /\ Live
    /\ hpc[c] = "join"
    /\ IF JoinsItself(c)
       THEN /\ abort' = "self_join"
            /\ hpc' = [hpc EXCEPT ![c] = "aborted"]
            /\ UNCHANGED <<countEvent, clientToRemove>>
       ELSE /\ RemoveJoin(c)
            /\ hpc' = [hpc EXCEPT ![c] = "exited"]
            /\ abort' = abort
    /\ UNCHANGED <<runtimeVars, frameVars, readerVars, lockVars, registryVars, raceVars, isRunning, stopSending, serverSocket, clients, clientsMutex,
                   sendQueue, acceptpc, accepted, sendpc, clientSockets, toRemove, message,
                   kernelVars, srvpc, nextMsg, starts, startRet, strayRemoval, received>>

BackIndex(q) == Len(q)
\* sendQueue_.front() and sendQueue_.pop(): the oldest message of the queue.
FrontIndex(q) == 1

\* The connection that holds a descriptor number now: the last one accept()
\* gave the number to, while the number is in use; 0 for a closed number.
Owner(fd) ==
    IF fd \in openFds
    THEN CHOOSE c \in Conns : /\ connFd[c] = fd
                              /\ \A d \in Conns : connFd[d] = fd => d <= c
    ELSE 0

\* sendToAllClients(message): nothing on a stopped server; otherwise push
\* under the queue lock and notify_one.
SendToAllClients ==
    /\ Live
    /\ nextMsg' = nextMsg + 1
    /\ IF isRunning
       THEN /\ sendpc # "towait"
            /\ sendQueue' = Append(sendQueue, nextMsg)
            /\ sendpc' = IF sendpc = "blocked" THEN "wait" ELSE sendpc
       ELSE UNCHANGED <<sendQueue, sendpc>>
    /\ UNCHANGED <<runtimeVars, frameVars, readerVars, lockVars, registryVars, raceVars, isRunning, stopSending, serverSocket, clients, clientsMutex,
                   acceptpc, accepted, hpc, clientSockets, toRemove, message, clientToRemove,
                   kernelVars, srvpc, starts, abort, startRet, serverHist>>

\* sendToAllClients, first statement: the test of the running flag, with no
\* lock held. On a stopped server the call returns.
BroadcastTest ==
    /\ Live
    /\ pending = 0
    /\ nextMsg' = nextMsg + 1
    /\ pending' = IF isRunning THEN nextMsg ELSE 0
    /\ UNCHANGED <<runtimeVars, frameVars, readerVars, lockVars, registryVars, count, isRunning, stopSending, serverSocket, clients, clientsMutex,
                   sendQueue, acceptpc, accepted, hpc, sendpc, clientSockets, toRemove, message, clientToRemove,
                   kernelVars, srvpc, starts, abort, startRet, serverHist>>

\* sendToAllClients, the rest: the push under sendQueueMutex_ and
\* notify_one. Nothing tests the running flag again.
BroadcastPush ==
    /\ Live
    /\ pending # 0
    /\ sendpc # "towait"
    /\ sendQueue' = Append(sendQueue, pending)
    /\ sendpc' = IF sendpc = "blocked" THEN "wait" ELSE sendpc
    /\ pending' = 0
    /\ UNCHANGED <<runtimeVars, frameVars, readerVars, lockVars, registryVars, count, isRunning, stopSending, serverSocket, clients, clientsMutex,
                   acceptpc, accepted, hpc, clientSockets, toRemove, message, clientToRemove,
                   kernelVars, srvpc, nextMsg, starts, abort, startRet, serverHist>>

\* sendWorker, from the loop test to the pop: under sendQueueMutex_ wait's
\* predicate is tested; when it is false the thread is about to block
\* (still holding the lock); when it holds, the loop is left on stop with
\* an empty queue (at the loop test or at the break), else the front
\* message is popped and the lock released.
SendWait ==
    /\ Live
    /\ sendpc = "wait"
    /\ IF ~(stopSending \/ sendQueue # <<>>)
       THEN sendpc' = "towait" /\ UNCHANGED <<sendQueue, message>>
       ELSE IF stopSending /\ sendQueue = <<>>
       THEN sendpc' = "exited" /\ UNCHANGED <<sendQueue, message>>
       ELSE /\ sendpc' = "snapshot"
            /\ message' = sendQueue[FrontIndex(sendQueue)]
            /\ sendQueue' = RemoveAt(sendQueue, FrontIndex(sendQueue))
    /\ UNCHANGED <<runtimeVars, frameVars, readerVars, lockVars, registryVars, raceVars, isRunning, stopSending, serverSocket, clients, clientsMutex,
                   acceptpc, accepted, hpc, clientSockets, toRemove, clientToRemove,
                   kernelVars, srvpc, nextMsg, starts, abort, startRet, serverHist>>

\* condition_variable::wait after a false predicate: the lock is released
\* and the thread blocks, in one step.
SendBlock ==
    /\ Live
    /\ sendpc = "towait"
    /\ sendpc' = "blocked"
    /\ UNCHANGED <<runtimeVars, frameVars, readerVars, lockVars, registryVars, raceVars, isRunning, stopSending, serverSocket, clients, clientsMutex,
                   sendQueue, acceptpc, accepted, hpc, clientSockets, toRemove, message, clientToRemove,
                   kernelVars, srvpc, nextMsg, starts, abort, startRet, serverHist>>

\* A wake-up of the blocked sender that no notification caused.
SendSpuriousWakeup ==
    /\ Live
    /\ sendpc = "blocked"
    /\ sendpc' = "wait"
    /\ UNCHANGED <<runtimeVars, frameVars, readerVars, lockVars, registryVars, raceVars, isRunning, stopSending, serverSocket, clients, clientsMutex,
                   sendQueue, acceptpc, accepted, hpc, clientSockets, toRemove, message, clientToRemove,
                   kernelVars, srvpc, nextMsg, starts, abort, startRet, serverHist>>

\* sendWorker: the lock_guard on clientsMutex_ of the snapshot block.
SendSnapshotLock ==
    /\ Live
    /\ sendpc = "snapshot"
    /\ clientsMutex = "free"
    /\ clientsMutex' = "sender"
    /\ sendpc' = "copy"
    /\ UNCHANGED <<runtimeVars, frameVars, readerVars, lockVars, registryVars, raceVars, isRunning, stopSending, serverSocket, clients,
                   sendQueue, acceptpc, accepted, hpc, clientSockets, toRemove, message, clientToRemove,
                   kernelVars, srvpc, nextMsg, starts, abort, startRet, serverHist>>

\* sendWorker: the descriptors of the connected clients are copied and the
\* snapshot block ends; toRemove starts empty.
SendSnapshot ==
    /\ Live
    /\ sendpc = "copy"
    /\ clientSockets' = clients
    /\ toRemove' = <<>>
    /\ clientsMutex' = MutexAfterSnapshot
    /\ sendpc' = IF clients = <<>> THEN "remove" ELSE "write"
    /\ UNCHANGED <<runtimeVars, frameVars, readerVars, lockVars, registryVars, raceVars, isRunning, stopSending, serverSocket, clients,
                   sendQueue, acceptpc, accepted, hpc, message, clientToRemove,
                   kernelVars, srvpc, nextMsg, starts, abort, startRet, serverHist>>

\* sendWorker: the prefix and the payload are sent to the next snapshotted
\* descriptor number, and the kernel delivers them to the connection that
\* holds the number at that moment; send fails on a number not in use, and
\* may fail on any; a failed send puts the descriptor on toRemove.
Write(outcome) ==
    /\ Live
    /\ sendpc = "write"
    /\ LET snap == Head(clientSockets)
           got == Owner(snap.fd)
       IN /\ outcome = "sent" => got # 0
          /\ toRemove' = IF outcome = "failed" THEN Append(toRemove, snap) ELSE toRemove
    /\ clientSockets' = Tail(clientSockets)
    /\ sendpc' = IF Tail(clientSockets) = <<>> THEN "remove" ELSE "write"
    /\ UNCHANGED <<runtimeVars, frameVars, readerVars, lockVars, registryVars, raceVars, isRunning, stopSending, serverSocket, clients, clientsMutex,
                   sendQueue, acceptpc, accepted, hpc, message, clientToRemove,
                   kernelVars, srvpc, nextMsg, starts, abort, startRet,
                   countEvent, strayRemoval>>

\* The same step with what the peers read left unobserved.
SendWrite(outcome) ==
    /\ Write(outcome)
    /\ received' = received

\* The same step with the peers observed: what was sent arrives at the
\* connection that holds the descriptor number.
SendWriteToPeer(outcome) ==
    /\ Write(outcome)
    /\ received' = IF outcome = "sent"
                   THEN [received EXCEPT ![Owner(Head(clientSockets).fd)] = Append(@, message)]
                   ELSE received

\* sendWorker: the loop over toRemove calls removeClient(fd); with the list
\* exhausted the worker is back at its loop test.
SendRemove ==
    /\ Live
    /\ sendpc = "remove"
    /\ IF toRemove = <<>>
       THEN /\ sendpc' = "wait"
            /\ message' = 0
            /\ UNCHANGED <<toRemove, clients, clientToRemove, openFds, strayRemoval>>
       ELSE /\ RemoveErase(SenderId, Head(toRemove).fd, Head(toRemove).conn)
            /\ toRemove' = Tail(toRemove)
            /\ sendpc' = IF Found(Head(toRemove).fd) = {} THEN "remove" ELSE "join"
            /\ message' = message
    /\ UNCHANGED <<runtimeVars, frameVars, readerVars, lockVars, registryVars, raceVars, isRunning, stopSending, serverSocket, clientsMutex,
                   sendQueue, acceptpc, accepted, hpc, clientSockets,
                   listenOpen, connFd, nextConn,
                   srvpc, nextMsg, starts, abort, startRet, countEvent, received>>

\* The sender inside removeClient at handlerThread.join().
SendRemoveJoin ==
    /\ Live
    /\ sendpc = "join"
    /\ RemoveJoin(SenderId)
    /\ sendpc' = "remove"
    /\ UNCHANGED <<runtimeVars, frameVars, readerVars, lockVars, registryVars, raceVars, isRunning, stopSending, serverSocket, clients, clientsMutex,
                   sendQueue, acceptpc, accepted, hpc, clientSockets, toRemove, message,
                   kernelVars, srvpc, nextMsg, starts, abort, startRet, strayRemoval, received>>

\* ------------------------------------------- ThreadManager, the registry

\* threadIndex >= threads_.size() || !threads_[threadIndex], negated
ValidIndex(i) == i <= nthreads

JoinableAlways(i) == TRUE
\* threadInfo->thread && threadInfo->thread->joinable()
Joinable(i) == joinable[i]

\* createThread(name, task) under managerMutex_: the entry is made in state
\* CREATED, its thread is started and the entry appended; the index is
\* returned.
CreateThread ==
    /\ managerMutex = 0
    /\ nthreads < MaxThreads
    /\ nthreads' = nthreads + 1
    /\ tstate' = [tstate EXCEPT ![nthreads + 1] = "CREATED"]
    /\ joinable' = [joinable EXCEPT ![nthreads + 1] = TRUE]
    /\ tpc' = [tpc EXCEPT ![nthreads + 1] = "start"]
    /\ UNCHANGED <<runtimeVars, serverVars, frameVars, readerVars, lockVars, managerMutex, lastCall, released>>

\* The created thread's lambda, first statements: state = RUNNING, with no
\* lock held.
ThreadStart(i) ==
    /\ tpc[i] = "start"
    /\ tstate' = [tstate EXCEPT ![i] = "RUNNING"]
    /\ tpc' = [tpc EXCEPT ![i] = "task"]
    /\ UNCHANGED <<runtimeVars, serverVars, frameVars, readerVars, lockVars, nthreads, joinable, managerMutex,
                   lastCall, released>>

\* The created thread's lambda, after task() has returned or thrown:
\* state = TERMINATED, with no lock held, and the thread ends.
ThreadFinish(i) ==
    /\ tpc[i] = "task"
    /\ tstate' = [tstate EXCEPT ![i] = "TERMINATED"]
    /\ tpc' = [tpc EXCEPT ![i] = "done"]
    /\ UNCHANGED <<runtimeVars, serverVars, frameVars, readerVars, lockVars, nthreads, joinable, managerMutex,
                   lastCall, released>>

\* joinThread(i) under managerMutex_: false for an invalid index or a
\* thread that is not joinable; otherwise join() is entered, the lock held.
JoinThread(i) ==
    /\ managerMutex = 0
    /\ IF ValidIndex(i) /\ Joinable(i)
       THEN /\ managerMutex' = i
            /\ lastCall' = lastCall
       ELSE /\ managerMutex' = managerMutex
            /\ lastCall' = [op |-> "join", idx |-> i, ret |-> FALSE]
    /\ UNCHANGED <<runtimeVars, serverVars, frameVars, readerVars, lockVars, nthreads, tstate, joinable, tpc, released>>

\* joinThread, the rest: join() returns when the thread has ended; the
\* state is set to TERMINATED and true is returned.
JoinReturn ==
    /\ managerMutex # 0
    /\ tpc[managerMutex] = "done"
    /\ joinable' = [joinable EXCEPT ![managerMutex] = FALSE]
    /\ tstate' = [tstate EXCEPT ![managerMutex] = "TERMINATED"]
    /\ lastCall' = [op |-> "join", idx |-> managerMutex, ret |-> TRUE]
    /\ released' = released \cup {managerMutex}
    /\ managerMutex' = 0
    /\ UNCHANGED <<runtimeVars, serverVars, frameVars, readerVars, lockVars, nthreads, tpc>>

\* detachThread(i) under managerMutex_: false for an invalid index or a
\* thread that is not joinable; otherwise detach() and true. The state is
\* left as it is.
DetachThread(i) ==
    /\ managerMutex = 0
    /\ IF ValidIndex(i) /\ Joinable(i)
       THEN /\ joinable' = [joinable EXCEPT ![i] = FALSE]
            /\ lastCall' = [op |-> "detach", idx |-> i, ret |-> TRUE]
            /\ released' = released \cup {i}
       ELSE /\ lastCall' = [op |-> "detach", idx |-> i, ret |-> FALSE]
            /\ UNCHANGED <<joinable, released>>
    /\ UNCHANGED <<runtimeVars, serverVars, frameVars, readerVars, lockVars, nthreads, tstate, tpc, managerMutex>>

\* terminateThread(i) under managerMutex_: for a valid index with a
\* joinable thread the state is set to TERMINATED; the thread is not
\* stopped.
TerminateThread(i) ==
    /\ managerMutex = 0
    /\ ValidIndex(i) /\ Joinable(i)
    /\ tstate' = [tstate EXCEPT ![i] = "TERMINATED"]
    /\ UNCHANGED <<runtimeVars, serverVars, frameVars, readerVars, lockVars, nthreads, joinable, tpc, managerMutex,
                   lastCall, released>>

\* The registry after ThreadManager's constructor: threads_ is empty.
RegistryInit ==
    /\ nthreads = 0
    /\ tstate = [i \in Handles |-> "CREATED"]
    /\ joinable = [i \in Handles |-> FALSE]
    /\ tpc = [i \in Handles |-> "none"]
    /\ managerMutex = 0
    /\ lastCall = NoCall
    /\ released = {}

\* ------------------------------------------------- the frame on the wire

\* The four bytes of a 32-bit value in the memory order of the host.
HostOrder(n) ==
    <<n % 256, (n \div 256) % 256, (n \div 65536) % 256, (n \div 16777216) % 256>>
\* The four bytes, in memory order, of htonl(n): the most significant first.
Htonl(n) ==
    <<(n \div 16777216) % 256, (n \div 65536) % 256, (n \div 256) % 256, n % 256>>

\* static_cast<uint32_t>(message.length()): the lengths explored are far
\* below 2^32, where the cast keeps the value.
MessageLen(m) == Len(m)

\* The bytes s[from + 1 .. from + k]: what send(fd, data + from, ..) takes
\* when it returns k.
Bytes(s, from, k) == [i \in 1..k |-> s[from + i]]

\* What send() may return for rem bytes of payload: an error, a part of
\* them, or all.
PayloadReturns(rem) == {-1, (rem + 1) \div 2, rem}

\* sendWorker, the send of the length prefix: any return but 4 puts the
\* descriptor on toRemove and goes on to the next client; the bytes a short
\* send has taken are on the socket. After the prefix of an empty message
\* the payload loop is not entered.
SendPrefix(sent) ==
    /\ fpc = "prefix"
    /\ wire' = IF sent > 0 THEN wire \o Bytes(Htonl(MessageLen(payload)), 0, sent) ELSE wire
    /\ fpc' = IF sent # 4 THEN "removed"
              ELSE IF 0 < Len(payload) THEN "payload" ELSE "done"
    /\ totalSent' = 0
    /\ UNCHANGED <<runtimeVars, serverVars, registryVars, readerVars, lockVars, payload>>

\* sendWorker, one turn of the payload loop: a negative return puts the
\* descriptor on toRemove and leaves the loop; otherwise the bytes taken
\* are counted and the loop ends when all are.
SendPayload(sent) ==
    /\ fpc = "payload"
    /\ sent \in PayloadReturns(Len(payload) - totalSent)
    /\ IF sent < 0
       THEN /\ fpc' = "removed"
            /\ UNCHANGED <<wire, totalSent>>
       ELSE /\ wire' = wire \o Bytes(payload, totalSent, sent)
            /\ totalSent' = totalSent + sent
            /\ fpc' = IF totalSent + sent < Len(payload) THEN "payload" ELSE "done"
    /\ UNCHANGED <<runtimeVars, serverVars, registryVars, readerVars, lockVars, payload>>

\* The sender at the top of its write loop body with a popped message, and
\* a socket that has taken nothing of it yet.
FrameInit ==
    /\ payload \in {[i \in 1..n |-> (b + i - 1) % 256] : n \in FrameLengths, b \in FirstBytes}
    /\ wire = <<>>
    /\ fpc = "prefix"
    /\ totalSent = 0

\* ------------------------------------------------- the reader's byte stream

\* The bytes a peer puts on its socket for a frame: the declared length in
\* network order, then the bytes it sends of the payload.
RECURSIVE Stream(_)
Stream(frames) ==
    IF frames = <<>> THEN <<>>
    ELSE Htonl(Head(frames).len) \o Head(frames).data \o Stream(Tail(frames))

\* The value of four bytes of memory read as a 32-bit integer of the host
\* (little-endian on every Android ABI).
HostValue(b) == b[1] + 256 * (b[2] + 256 * (b[3] + 256 * b[4]))
\* ntohl of the four bytes recv has stored in messageLen: the first byte
\* of the stream is the most significant.
Ntohl(b) == ((b[1] * 256 + b[2]) * 256 + b[3]) * 256 + b[4]

\* The buffer after recv has stored bytes at buffer.data() + at.
Stored(buf, at, bytes) ==
    LET top == IF Len(buf) > at + Len(bytes) THEN Len(buf) ELSE at + Len(bytes) IN
    [i \in 1..top |-> IF i > at /\ i <= at + Len(bytes) THEN bytes[i - at] ELSE buf[i]]

\* What recv may return when asked for up to want bytes of a stream that
\* has avail more: an error, 0 once the peer has closed and nothing is
\* left, a part of what is there, or all of it.
RecvReturns(want, avail) ==
    LET most == IF want < avail THEN want ELSE avail IN
    IF most = 0 THEN {-1, 0} ELSE {-1, (most + 1) \div 2, most}

\* handleClient, from the loop test to the length check: recv with
\* MSG_WAITALL returns the four bytes of the prefix, or less when the peer
\* has closed before sending them, or an error; any return but 4 leaves the
\* loop by the break. The length is converted and a length of 0 or above BUFFER_SIZE
\* leaves the loop.
RecvPrefix(ret) ==
    /\ rpc = "prefix"
    /\ LET inbound == Stream(peerFrames)
           avail == Len(inbound) - rpos IN
       /\ ret \in IF avail >= 4 THEN {-1, 4} ELSE {-1, avail}
       /\ IF ret # 4
          THEN /\ rpc' = IF ret < 0 THEN "failed" ELSE "closed"
               /\ rpos' = IF ret > 0 THEN rpos + ret ELSE rpos
               /\ UNCHANGED <<messageLen, totalReceived>>
          ELSE /\ messageLen' = Ntohl(Bytes(inbound, rpos, 4))
               /\ rpos' = rpos + 4
               /\ totalReceived' = 0
               /\ rpc' = IF messageLen' = 0 \/ messageLen' > BUFFER_SIZE
                         THEN "invalid" ELSE "payload"
    /\ UNCHANGED <<runtimeVars, serverVars, frameVars, registryVars, lockVars,
                   peerFrames, buffer, forwarded>>

\* handleClient, the loop test: it fails once stopServer has cleared the
\* running flag, which may be at any turn.
ReaderStopped ==
    /\ rpc = "prefix"
    /\ rpc' = "stopped"
    /\ UNCHANGED <<runtimeVars, serverVars, frameVars, registryVars, lockVars,
                   peerFrames, rpos, messageLen, buffer, totalReceived, forwarded>>

\* handleClient, one turn of the payload loop: a return of 0 or less goes
\* to client_disconnected; otherwise the bytes are in the buffer behind
\* those of the earlier turns and the loop ends when messageLen are there.
RecvPayload ==
    /\ rpc = "payload"
    /\ LET inbound == Stream(peerFrames) IN
       \E ret \in RecvReturns(messageLen - totalReceived, Len(inbound) - rpos) :
          IF ret <= 0
          THEN /\ rpc' = IF ret < 0 THEN "failed" ELSE "closed"
               /\ UNCHANGED <<rpos, buffer, totalReceived>>
          ELSE /\ buffer' = Stored(buffer, totalReceived, Bytes(inbound, rpos, ret))
               /\ rpos' = rpos + ret
               /\ totalReceived' = totalReceived + ret
               /\ rpc' = IF totalReceived + ret < messageLen THEN "payload" ELSE "forward"
    /\ UNCHANGED <<runtimeVars, serverVars, frameVars, registryVars, lockVars,
                   peerFrames, messageLen, forwarded>>

\* handleClient, the end of the loop body: the first messageLen bytes of the
\* buffer become the message and, with the bridge the host has attached,
\* postStringEvent("socket_message", message) is called; back to the loop
\* test.
Forward ==
    /\ rpc = "forward"
    /\ forwarded' = Append(forwarded, [type |-> "STRING", eventId |-> "socket_message",
                                       data |-> SubSeq(buffer, 1, messageLen)])
    /\ rpc' = "prefix"
    /\ UNCHANGED <<runtimeVars, serverVars, frameVars, registryVars, lockVars,
                   peerFrames, rpos, messageLen, buffer, totalReceived>>

\* The frames a peer may send: short payloads of every content explored
\* with the declared length equal to the number of bytes, the same cut
\* short by one byte (the peer closes inside the payload), a payload of the
\* maximum length, and prefixes declaring a length of 0 or above the
\* maximum with nothing behind.
FramesSent ==
    {[len |-> n, data |-> [i \in 1..(n - cut) |-> (b + i - 1) % 256]] :
        n \in ReaderLengths, b \in FirstBytes, cut \in {0, 1}}
    \cup {[len |-> BUFFER_SIZE, data |-> [i \in 1..BUFFER_SIZE |-> (6 + i) % 256]]}
    \cup {[len |-> n, data |-> <<>>] : n \in {0, BUFFER_SIZE + 1}}

\* No reader is followed byte by byte.
ReaderIdle ==
    /\ peerFrames = <<>>
    /\ rpos = 0
    /\ rpc = "none"
    /\ messageLen = 0
    /\ buffer = <<>>
    /\ totalReceived = 0
    /\ forwarded = <<>>

\* ------------------------------------------------------------ the mutexes

\* The five mutexes of the runtime.
PoolQueueMutex == "ThreadManager::queueMutex_"
EventQueueMutex == "IOBridge::queueMutex_"
ClientsMutex == "clientsMutex_"
SendQueueMutex == "sendQueueMutex_"
ManagerMutex == "managerMutex_"
Mutexes == {PoolQueueMutex, EventQueueMutex, ClientsMutex, SendQueueMutex, ManagerMutex}

\* The lock statements of a function, in the order a thread running it
\* executes them: the lock and the unlock of each mutex.
LockOf(m) == [op |-> "lock", mutex |-> m]
UnlockOf(m) == [op |-> "unlock", mutex |-> m]
\* A lock_guard (or unique_lock) whose scope contains no call that locks.
Scope(m) == <<LockOf(m), UnlockOf(m)>>

\* submitTask: the push under the pool's queue lock.
SubmitTaskLocks == Scope(PoolQueueMutex)
\* shutdownThreadPool: the stop flag is set under the pool's queue lock.
ShutdownLocks == Scope(PoolQueueMutex)
\* processEvents: the queue is swapped out under the event-queue lock; the
\* callbacks run after the block.
ProcessEventsLocks == Scope(EventQueueMutex)
PostLocksNested == <<LockOf(EventQueueMutex)>> \o SubmitTaskLocks \o <<UnlockOf(EventQueueMutex)>>
\* postX: the push_back in a block of its own under the event-queue lock;
\* the compare-and-swap and submitTask come after the block.
PostLocks == Scope(EventQueueMutex) \o SubmitTaskLocks
\* workerFunction, two turns: the dequeue under the pool's queue lock and,
\* after the block, the task: the drain lambda, then a task of the host
\* that posts an event.
WorkerLocks ==
    Scope(PoolQueueMutex) \o ProcessEventsLocks \o Scope(PoolQueueMutex) \o PostLocks
\* notifyConnectionChange: getConnectedClientCount's lock, then the post.
NotifyLocks == Scope(ClientsMutex) \o PostLocks
\* removeClient: the search and erase in a block under the list lock;
\* close, join and notifyConnectionChange after the block.
RemoveClientLocks == Scope(ClientsMutex) \o NotifyLocks
\* sendWorker, one turn: the pop under the queue lock, released by
\* lock.unlock(); the snapshot in a block under the list lock; the writes
\* with no lock; removeClient for a failed descriptor.
SendWorkerLocks == Scope(SendQueueMutex) \o Scope(ClientsMutex) \o RemoveClientLocks
\* acceptConnections, one turn: the capacity test and the push_back, each
\* in its block under the list lock, then notifyConnectionChange.
AcceptLocks == Scope(ClientsMutex) \o Scope(ClientsMutex) \o NotifyLocks
\* handleClient: a frame is forwarded, then the loop is left and
\* removeClient called.
HandleClientLocks == PostLocks \o RemoveClientLocks
\* The threads of the runtime and of the host, by what they run.
LockThreads ==
    {"worker", "pool_control", "poster", "reader", "sender", "accept", "server_control",
     "broadcaster", "registry_user", "manager_cleanup", "bridge_cleanup"}
NoThread == "none"

\* What each of them runs. initializeThreadPool: shutdown of the previous
\* pool, then the reset of the flag and the counter under the pool's queue
\* lock. stopServer: the block that closes and clears the list.
\* sendToAllClients: the push under the outbound-queue lock. createThread,
\* joinThread, detachThread, terminateThread and the queries: the whole body
\* under the registry lock (joinThread waits for the joined thread inside
\* it). ThreadManager::cleanup: shutdownThreadPool, joinAll, then the clear
\* under the registry lock. IOBridge::cleanup: the queue is cleared under
\* the event-queue lock.
LockScript(t) ==
    CASE t = "worker" -> WorkerLocks
      [] t = "pool_control" -> ShutdownLocks \o Scope(PoolQueueMutex)
      [] t = "poster" -> PostLocks
      [] t = "reader" -> HandleClientLocks
      [] t = "sender" -> SendWorkerLocks
      [] t = "accept" -> AcceptLocks
      [] t = "server_control" -> Scope(ClientsMutex)
      [] t = "broadcaster" -> Scope(SendQueueMutex)
      [] t = "registry_user" -> Scope(ManagerMutex)
      [] t = "manager_cleanup" -> ShutdownLocks \o Scope(ManagerMutex) \o Scope(ManagerMutex)
      [] t = "bridge_cleanup" -> Scope(EventQueueMutex)

\* The next lock statement of a followed thread, or none when the thread
\* is not followed or has finished.
NoStatement == [op |-> "none", mutex |-> "none"]
NextStatement(t) ==
    IF lpc[t] >= 1 /\ lpc[t] <= Len(LockScript(t)) THEN LockScript(t)[lpc[t]] ELSE NoStatement

\* std::mutex::lock: the thread goes on when the mutex is free, and owns
\* it; otherwise it waits (also for a mutex it owns itself).
Lock(t) ==
    /\ NextStatement(t).op = "lock"
    /\ owner[NextStatement(t).mutex] = NoThread
    /\ owner' = [owner EXCEPT ![NextStatement(t).mutex] = t]
    /\ lpc' = [lpc EXCEPT ![t] = lpc[t] + 1]
    /\ UNCHANGED <<runtimeVars, serverVars, frameVars, registryVars, readerVars>>

\* The end of the lock's scope (or unlock()).
Unlock(t) ==
    /\ NextStatement(t).op = "unlock"
    /\ owner' = [owner EXCEPT ![NextStatement(t).mutex] = NoThread]
    /\ lpc' = [lpc EXCEPT ![t] = lpc[t] + 1]
    /\ UNCHANGED <<runtimeVars, serverVars, frameVars, registryVars, readerVars>>

\* No thread is followed through its lock statements.
LockIdle ==
    /\ owner = [m \in Mutexes |-> NoThread]
    /\ lpc = [t \in LockThreads |-> 0]

\* ------------------------------------------------------------------- Init

\* The state after ThreadManager's constructor.
PoolInit ==
    /\ poolThreads = {}
    /\ wpc = [w \in Workers |-> "none"]
    /\ wtask = [w \in Workers |-> NoTask]
    /\ wgen = [w \in Workers |-> 0]
    /\ taskQueue = <<>>
    /\ stopPool = FALSE
    /\ activeTasks = 0
    /\ ctlpc = "idle"
    /\ ctlCall = "none"
    /\ poolSize = 0
    /\ poolGen = 0
    /\ nextTask = 1
    /\ taskLog = <<>>
    /\ rejected = {}
    /\ atStop = {}
    /\ discarded = {}
    /\ lastCaught = 0

\* The state after IOBridge's constructor.
BridgeInit ==
    /\ jvm = FALSE
    /\ listenerObject = NoSink
    /\ threadManager = FALSE
    /\ processingScheduled = FALSE
    /\ eventQueue = <<>>
    /\ ppc = [p \in Producers |-> "idle"]
    /\ nextEvent = 1
    /\ wsnap = [w \in Workers |-> <<>>]
    /\ cleanups = 0
    /\ delivered = <<>>
    /\ failedIn = NoFailure

\* The state after SocketManager's constructor, with no connection made.
ServerInit ==
    /\ isRunning = FALSE
    /\ stopSending = FALSE
    /\ serverSocket = NoSocket
    /\ clients = <<>>
    /\ clientsMutex = "free"
    /\ sendQueue = <<>>
    /\ srvpc = "idle"
    /\ acceptpc = "none"
    /\ accepted = NoClient
    /\ hpc = [c \in Conns |-> "none"]
    /\ sendpc = "none"
    /\ clientSockets = <<>>
    /\ toRemove = <<>>
    /\ message = 0
    /\ clientToRemove = [r \in Removers |-> NoClient]
    /\ pending = 0
    /\ count = 0
    /\ listenOpen = FALSE
    /\ openFds = {}
    /\ connFd = [c \in Conns |-> 0]
    /\ nextConn = 1
    /\ nextMsg = 1
    /\ starts = 0
    /\ abort = "none"
    /\ startRet = "none"
    /\ countEvent = <<>>
    /\ strayRemoval = <<>>
    /\ received = [c \in Conns |-> <<>>]

\* No message is on its way to a socket.
FrameIdle ==
    /\ payload = <<>>
    /\ wire = <<>>
    /\ fpc = "done"
    /\ totalSent = 0

Init ==
    PoolInit /\ BridgeInit /\ ServerInit /\ FrameIdle /\ RegistryInit /\ ReaderIdle /\ LockIdle

\* ----------------------------------------------------------- specifications

NextPool ==
    \/ \E w \in Workers : WorkerCheck(w)
    \/ \E w \in Workers : SpuriousWakeup(w)
    \/ \E w \in Workers, o \in Outcomes : FinishTask(w, o)
    \/ (nextTask <= MaxTasks /\ SubmitTask)
    \/ CallShutdown
    \/ ShutdownStop
    \/ ShutdownJoin
    \/ ShutdownClear
    \/ \E n \in PoolSizes : CallInitialize(n)
    \/ InitReset
    \/ InitSpawn

\* The thread pool on its own: one thread calling initialize / shutdown,
\* any number of threads calling submitTask, and the workers.
SpecPool == Init /\ [][NextPool]_vars

\* The same with the scheduling the operating system gives: a thread that
\* can take a step is not starved forever, and a task body terminates.
NextFairPool ==
    \/ \E w \in Workers : WorkerCheck(w)
    \/ \E w \in Workers : SpuriousWakeup(w)
    \/ \E w \in Workers, o \in Outcomes : FinishTask(w, o)
    \/ (nextTask <= MaxFairTasks /\ SubmitTask)
    \/ CallShutdown
    \/ ShutdownStop
    \/ ShutdownJoin
    \/ ShutdownClear
    \/ \E n \in PoolSizes : CallInitialize(n)
    \/ InitReset
    \/ InitSpawn

FairSpecPool ==
    /\ Init /\ [][NextFairPool]_vars
    /\ \A w \in Workers : /\ WF_vars(WorkerCheck(w))
                          /\ WF_vars(\E o \in Outcomes : FinishTask(w, o))
    /\ WF_vars(ShutdownStop) /\ WF_vars(ShutdownJoin) /\ WF_vars(ShutdownClear)
    /\ WF_vars(InitReset) /\ WF_vars(InitSpawn)

\* The host's listener object in the event-queue specifications.
HostListener == CHOOSE s \in Sinks : TRUE

\* initThreadManager: the host creates the ThreadManager and starts its
\* pool once, with more than one worker (hardware_concurrency() + 1, at
\* most 8; here the largest pool size explored).
StartPool == poolGen = 0 /\ CallInitialize(MaxPoolSize)

NextSteady ==
    \/ Initialize
    \/ SetThreadManager
    \/ RegisterListener(HostListener)
    \/ StartPool
    \/ InitReset
    \/ InitSpawn
    \/ \E w \in Workers : WorkerCheck(w)
    \/ \E w \in Workers : SpuriousWakeup(w)
    \/ \E w \in Workers : DrainBegin(w)
    \/ \E w \in Workers : DrainDeliver(w)
    \/ \E w \in Workers : DrainClear(w)
    \/ \E p \in Producers : PostPush(p)
    \/ \E p \in Producers : PostSchedule(p)

\* The event queue in service: the bridge is initialized, given its thread
\* manager and the host's listener, the pool is started, and producers post
\* while the workers drain. Nothing is shut down.
SpecSteady == Init /\ [][NextSteady]_vars

\* The same with the listener unregistered and the bridge cleaned up and
\* initialized again at any moment.
SpecBridge == Init /\ [][NextSteady \/ UnregisterListener \/ Cleanup]_vars

\* The event queue in service with a listener whose methods may throw.
SpecSink == Init /\ [][NextSteady \/ \E w \in Workers : DrainDeliverThrows(w)]_vars

\* The bridge cleaned up and initialized again at any moment, with posts
\* made at any moment: before initialize, before the listener is
\* registered, in service, and after cleanup.
SpecPosts ==
    Init /\ [][\/ NextSteady
               \/ Cleanup
               \/ \E p \in Producers : PostRefused(p)
               \/ \E p \in Producers : PostReturn(p)]_vars

\* The event queue in service while the pool is shut down at any moment:
\* posts are made before the pool is started, while it runs, during
\* shutdownThreadPool and after it.
SpecBridgeShutdown ==
    Init /\ [][\/ NextSteady
               \/ CallShutdown
               \/ ShutdownStop
               \/ ShutdownJoin
               \/ ShutdownClear]_vars

\* The event queue in service while the host replaces its listener at any
\* moment by another one.
SpecSinks == Init /\ [][NextSteady \/ \E s \in Sinks : RegisterListener(s)]_vars

NextServer ==
    \/ \E o \in StartOutcomes : StartServer(o)
    \/ StopFlags
    \/ StopClients
    \/ StopNotify
    \/ StopJoin
    \/ AcceptReturn
    \/ AcceptCheck
    \/ AcceptPush
    \/ AcceptNotify
    \/ \E c \in Conns : HandleDisconnect(c)
    \/ \E c \in Conns : HandleRemove(c)
    \/ \E c \in Conns : HandleJoin(c)
    \/ (nextMsg <= MaxMsgs /\ SendToAllClients)
    \/ SendWait
    \/ SendBlock
    \/ SendSpuriousWakeup
    \/ SendSnapshotLock
    \/ SendSnapshot
    \/ \E o \in SendOutcomes : SendWrite(o)
    \/ SendRemove
    \/ SendRemoveJoin

\* The server's threads with the steps of sendToAllClients and of the accept
\* thread's notifyConnectionChange taken one statement at a time, and with
\* accept() allowed to fail while the server runs.
NextRaces ==
    \/ \E o \in StartOutcomes : StartServer(o)
    \/ StopFlags
    \/ StopClients
    \/ StopNotify
    \/ StopJoin
    \/ AcceptReturn
    \/ AcceptFails
    \/ AcceptCheck
    \/ AcceptPush
    \/ AcceptCount
    \/ AcceptPost
    \/ \E c \in Conns : HandleDisconnect(c)
    \/ \E c \in Conns : HandleRemove(c)
    \/ \E c \in Conns : HandleJoin(c)
    \/ (nextMsg <= MaxMsgs /\ BroadcastTest)
    \/ BroadcastPush
    \/ SendWait
    \/ SendBlock
    \/ SendSpuriousWakeup
    \/ SendSnapshotLock
    \/ SendSnapshot
    \/ \E o \in SendOutcomes : SendWrite(o)
    \/ SendRemove
    \/ SendRemoveJoin

SpecRaces == Init /\ [][NextRaces]_vars

\* The TCP server: one thread calling startServer / stopServer, the accept
\* thread, the sender thread, one reader thread per connection, threads
\* calling sendToAllClients, and the peers.
SpecServer == Init /\ [][NextServer]_vars

NextBroadcast ==
    \/ StartServer("ok")
    \/ AcceptReturn
    \/ AcceptCheck
    \/ AcceptPush
    \/ AcceptNotify
    \/ \E c \in Conns : HandleDisconnect(c)
    \/ \E c \in Conns : HandleRemove(c)
    \/ \E c \in Conns : HandleJoin(c)
    \/ (nextMsg <= MaxBroadcasts /\ SendToAllClients)
    \/ SendWait
    \/ SendBlock
    \/ SendSpuriousWakeup
    \/ SendSnapshotLock
    \/ SendSnapshot
    \/ \E o \in SendOutcomes : SendWriteToPeer(o)
    \/ SendRemove
    \/ SendRemoveJoin

\* The server in service: started once and not stopped, with connections
\* coming and going and several messages broadcast, and with what each peer
\* reads observed.
SpecBroadcast == Init /\ [][NextBroadcast]_vars

\* The sender about to write a message; everything else as constructed.
InitFrame ==
    PoolInit /\ BridgeInit /\ ServerInit /\ RegistryInit /\ FrameInit /\ ReaderIdle /\ LockIdle

\* A reader thread entering its loop on a connection whose peer sends up to
\* MaxFrames frames and closes (only the last frame may be cut short);
\* everything else as constructed.
InitReader ==
    /\ PoolInit /\ BridgeInit /\ ServerInit /\ RegistryInit /\ FrameIdle /\ LockIdle
    /\ peerFrames \in UNION {[1..n -> FramesSent] : n \in 0..MaxFrames}
    /\ \A i \in 1..(Len(peerFrames) - 1) : Len(peerFrames[i].data) = peerFrames[i].len
    /\ rpos = 0
    /\ rpc = "prefix"
    /\ messageLen = 0
    /\ buffer = <<>>
    /\ totalReceived = 0
    /\ forwarded = <<>>

\* One reader on one connection, for every sequence of frames explored and
\* every way recv may return.
SpecReader ==
    InitReader /\ [][\/ \E r \in {-1, 0, 1, 2, 3, 4} : RecvPrefix(r)
                     \/ ReaderStopped
                     \/ RecvPayload
                     \/ Forward]_vars

\* Up to MaxLockThreads threads, of any kinds, are about to run their
\* functions and every mutex is free; everything else as constructed.
InitLocks ==
    /\ PoolInit /\ BridgeInit /\ ServerInit /\ RegistryInit /\ FrameIdle /\ ReaderIdle
    /\ owner = [m \in Mutexes |-> NoThread]
    /\ lpc \in [LockThreads -> {0, 1}]
    /\ Cardinality({t \in LockThreads : lpc[t] = 1}) <= MaxLockThreads

\* The threads of the runtime at their lock statements, any MaxLockThreads
\* of them at a time.
SpecLocks ==
    InitLocks /\ [][\/ \E t \in LockThreads : Lock(t)
                    \/ \E t \in LockThreads : Unlock(t)]_vars

NextFrame ==
    \/ \E r \in PrefixReturns : SendPrefix(r)
    \/ \E r \in -1..(BUFFER_SIZE + 1) : SendPayload(r)

\* One message written to one socket by the sender's loop body, for every
\* message length and content explored and every way send() may return.
SpecFrame == InitFrame /\ [][NextFrame]_vars

NextRegistry ==
    \/ CreateThread
    \/ \E i \in Handles : ThreadStart(i)
    \/ \E i \in Handles : ThreadFinish(i)
    \/ \E i \in Handles : JoinThread(i)
    \/ JoinReturn
    \/ \E i \in Handles : DetachThread(i)
    \/ \E i \in Handles : TerminateThread(i)

\* The registry: threads calling createThread, joinThread, detachThread and
\* terminateThread with any index, and the created threads.
SpecRegistry == Init /\ [][NextRegistry]_vars

\* ------------------------------------------------------------ thread pool claims

\* A worker thread that exists and has not returned from workerFunction.
Alive(w) == wpc[w] \notin {"none", "exited"}
Executing(w) == wpc[w] \in {"run", "drain", "deliver"}

\* C5 as stated: a task that was queued when shutdown set the stop flag is
\* not started afterwards.
C5_QueuedTasksNeverRunAfterStop ==
    \A i \in 1..Len(taskLog) : taskLog[i] \notin atStop

\* C5 amended: on a pool with workers the tasks queued at shutdown are not
\* discarded; the workers have dequeued every one of them when the join
\* loop is over, so the final swap finds the queue empty. Only tasks no
\* worker could take are discarded, and a discarded task is never started;
\* once shutdown has returned no worker is left to run anything.
C5_QueuedTasksDrainedBeforeJoin ==
    /\ (ctlpc = "sd_clear" /\ poolThreads # {}) =>
          (taskQueue = <<>> /\ atStop \subseteq Range(taskLog))
    /\ discarded \cap Range(taskLog) = {}
    /\ (stopPool /\ ctlpc \in {"idle", "init_reset"}) => \A w \in Workers : ~Alive(w)

C5_Witness ==
    ctlpc = "sd_clear" /\ poolThreads # {} /\ atStop # {}

\* C6: a task passed to submitTask while the pool is stopped is not put in
\* the queue and no worker ever holds or starts it.
C6_SubmitOnStoppedPoolIsNoOp ==
    \A t \in rejected :
        /\ \A i \in 1..Len(taskQueue) : taskQueue[i].id # t
        /\ \A w \in Workers : wtask[w].id # t
        /\ \A i \in 1..Len(taskLog) : taskLog[i] # t

C6_Witness ==
    rejected # {} /\ stopPool /\ ctlCall = "shutdown" /\ ctlpc = "idle"

\* C7: workers of two initialize calls are never alive together, and when
\* initialize(n) has returned the pool holds exactly n workers, all of them
\* created by that call.
C7_PriorPoolJoinedBeforeNewWorkers ==
    /\ \A a, b \in Workers : (Alive(a) /\ Alive(b)) => wgen[a] = wgen[b]
    /\ (ctlpc = "idle" /\ ctlCall = "initialize") =>
          /\ Cardinality(poolThreads) = poolSize
          /\ \A w \in poolThreads : wgen[w] = poolGen

C7_Witness ==
    /\ ctlpc = "idle" /\ ctlCall = "initialize" /\ poolThreads # {}
    /\ \E w \in Workers : wgen[w] # 0 /\ wgen[w] < poolGen

\* C8: tasks are dequeued in submission order: the dequeue log is strictly
\* increasing in submit order, and nothing still queued was submitted
\* before a task that has already been dequeued.
C8_FifoDequeue ==
    /\ \A i, j \in 1..Len(taskLog) : i < j => taskLog[i] < taskLog[j]
    /\ \A i \in 1..Len(taskQueue), j \in 1..Len(taskLog) :
          taskQueue[i].kind = "task" => taskLog[j] < taskQueue[i].id

C8_Witness ==
    Len(taskLog) >= 2 /\ taskQueue # <<>> /\ \E w \in Workers : wpc[w] = "run"

\* C9: the worker that caught a task's exception is still in its loop: it
\* has returned from workerFunction only if the pool was stopped.
C9_FailedTaskKeepsWorker ==
    \A w \in Workers : (w = lastCaught /\ wpc[w] = "exited") => stopPool

\* The worker that caught an exception is running a task it dequeued later.
C9_Witness ==
    lastCaught # 0 /\ wpc[lastCaught] = "run" /\ ~stopPool

\* C10: once shutdown has set the stop flag and is in its join loop, it
\* gets out of the loop and returns.
C10_ShutdownReturns ==
    (ctlpc = "sd_join") ~> (ctlpc \in {"idle", "init_reset"})

\* Shutdown is past its join loop on a pool that had workers.
C10_Witness ==
    ctlpc = "sd_clear" /\ poolThreads # {} /\ ctlCall = "shutdown"

\* ------------------------------------------------------------ event queue claims

\* Workers inside the drain lambda, from processEvents' entry to the reset
\* of the single-flight flag.
Draining == {w \in Workers : wpc[w] \in {"drain", "deliver"}}

\* C1 as stated, in the form a finite run decides: when a drain ends and
\* resets the single-flight flag, every event still in the queue belongs to
\* a postX call that has yet to try the compare-and-swap, so a drain will be
\* scheduled for it with no later post. (An event left in the queue with
\* the flag reset and no producer about to schedule is delivered only if
\* somebody posts again.)
C1_NoEventLeftBehind ==
    [][\A w \in Workers :
          (wpc[w] = "deliver" /\ wpc'[w] = "check" /\ eventQueue' # <<>>)
              => \E p \in Producers : ppc'[p] = "sched"]_vars

\* C2 as stated: at most one worker is inside a drain at any instant.
C2_SingleFlight ==
    Cardinality(Draining) <= 1

\* C3: no event reaches the sink twice, and an event is held by one place
\* only: the queue or the snapshot of a single drain.
C3_DeliveredAtMostOnce ==
    /\ \A i, j \in 1..Len(delivered) : i # j => delivered[i].ev # delivered[j].ev
    /\ \A w \in Workers :
          /\ Range(wsnap[w]) \cap Range(eventQueue) = {}
          /\ Range(wsnap[w]) \cap {delivered[i].ev : i \in 1..Len(delivered)} = {}
          /\ \A v \in Workers \ {w} : Range(wsnap[w]) \cap Range(wsnap[v]) = {}
    /\ Range(eventQueue) \cap {delivered[i].ev : i \in 1..Len(delivered)} = {}

\* A later drain is about to take events posted after an earlier drain's
\* deliveries.
C3_Witness ==
    /\ delivered # <<>>
    /\ eventQueue # <<>>
    /\ \E w \in Workers : wpc[w] = "drain"

\* C4 as stated: two events of one producer reach the sink in the order
\* the producer posted them.
C4_PerProducerOrder ==
    \A i, j \in 1..Len(delivered) :
        (i < j /\ delivered[i].ev.prod = delivered[j].ev.prod)
            => delivered[i].ev.id < delivered[j].ev.id

\* ------------------------------------------------------------ TCP server claims

\* The descriptor numbers held by the entries of the active list.
ListFds == {clients[i].fd : i \in 1..Len(clients)}

\* stopServer has been entered and has not returned.
Stopping == srvpc \in {"stop_clients", "stop_notify", "stop_join"}

\* C11 as stated, in the form a finite run decides: once stopServer has
\* sent its shutdown signal and waits in join, the sender is not blocked in
\* wait (it was woken, or will see the flag before it blocks). A sender
\* blocked at that point has no notification left to wake it, and join
\* never returns.
C11_StopWakesSender ==
    srvpc = "stop_join" => sendpc # "blocked"

\* C12 as stated: stopServer never destroys the reader thread of a listed
\* client unjoined; the thread object lives until a removal joins it.
C12_ReadersJoinedNotDestroyed ==
    (srvpc = "stop_clients") => abort # "thread_destroyed"

\* C13 as stated: a removeClient call made for one connection never erases
\* (and closes, and joins) another connection; called again for a
\* connection already removed it finds nothing.
C13_RemovalTakesOnlyItsConnection ==
    strayRemoval = <<>>

\* C14 as stated: the reader of a listed client whose peer closed takes
\* exactly its own entry out of the list, and when it leaves removeClient
\* it has raised the count event with the new count.
C14_DisconnectCountedOnce ==
    [][\A c \in Conns :
          /\ (hpc[c] = "remove" /\ hpc'[c] = "join" /\ clientToRemove'[c].conn = c)
                => Len(clients') = Len(clients) - 1
          /\ (hpc[c] = "join" /\ hpc'[c] # "join" /\ JoinsItself(c))
                => (hpc'[c] = "exited" /\ countEvent' = <<Len(clients')>>)]_vars

\* C15: a startServer call on a running server returns false and leaves
\* the server's fields, threads and sockets as they were.
C15_StartOnRunningServerChangesNothing ==
    [][(starts' # starts /\ isRunning)
          => (startRet' = "refused" /\ UNCHANGED <<serverState, kernelVars>>)]_vars

\* A start was refused on a server that had a client in its list.
C15_Witness ==
    startRet = "refused" /\ isRunning /\ clients # <<>>

\* C16: after a startServer call that failed on a system call the server is
\* fully stopped: not running, no listening descriptor kept or left open,
\* no accept or sender thread.
C16_FailedStartLeavesServerStopped ==
    startRet = "failed" =>
        /\ ~isRunning
        /\ serverSocket = NoSocket
        /\ ~listenOpen
        /\ acceptpc = "none"
        /\ sendpc = "none"

\* A start failed on a server that had run and been stopped before.
C16_Witness ==
    startRet = "failed" /\ starts = 2 /\ stopSending

\* C17 as stated, in the form a finite run decides: a stopServer call on a
\* server that has accepted connections does not end the process, and when
\* it has returned nothing is left that makes startServer fail.
C17_StopLeavesServerRestartable ==
    /\ (Stopping /\ nextConn > 1) => Live
    /\ (srvpc = "idle" /\ ~isRunning /\ Live) =>
          (serverSocket = NoSocket /\ ~listenOpen /\ acceptpc = "none" /\ sendpc = "none")

\* C18: the list never holds more than MAX_CLIENTS entries, and a
\* connection accepted while the list is full is closed at once, with no
\* handler started and nothing appended.
C18_ListNeverExceedsMaximum ==
    [][/\ Len(clients') <= MaxClients
       /\ (acceptpc = "check" /\ acceptpc' # "check" /\ isRunning /\ AtCapacity(Len(clients)))
             => /\ accepted.fd \notin openFds'
                /\ clients' = clients
                /\ hpc' = hpc
                /\ acceptpc' = "accept"]_vars

\* A connection was accepted and closed with no handler while the list
\* was full, and the accept loop went on.
C18_Witness ==
    /\ Len(clients) = MaxClients
    /\ acceptpc = "accept"
    /\ \E c \in Conns : connFd[c] # 0 /\ hpc[c] = "none" /\ accepted.conn # c

C20_NoWriteUnderListLock ==
    clientsMutex = "sender" => sendpc = "copy"

\* The sender is writing to a snapshotted socket.
C20_Witness ==
    sendpc = "write" /\ clientSockets # <<>> /\ clients # <<>>


\* ------------------------------------------------------------ broadcast claims

\* The sender's write loop sends to the head of its snapshot and the send
\* succeeds.
SentToHead ==
    /\ sendpc = "write"
    /\ clientSockets' = Tail(clientSockets)
    /\ toRemove' = toRemove

\* C21 as stated: every write of a broadcast reaches the connection that
\* was in the list when the snapshot was taken, never a connection accepted
\* after it, also when the snapshotted descriptor number was closed and
\* given to a new connection meanwhile.
C21_WritesReachSnapshottedConnections ==
    [][SentToHead => Owner(Head(clientSockets).fd) = Head(clientSockets).conn]_vars


\* C24: the messages written to a connection's socket arrive in the order
\* in which sendToAllClients enqueued them (message identities count the
\* enqueues).
C24_FramesInEnqueueOrder ==
    \A c \in Conns : \A i, j \in 1..Len(received[c]) :
        i < j => received[c][i] < received[c][j]

\* A client that is still connected and listed has been sent two messages.
C24_Witness ==
    \E c \in Conns : /\ Len(received[c]) >= 2
                     /\ hpc[c] = "recv"
                     /\ \E k \in 1..Len(clients) : clients[k].conn = c


\* The entries of the list that belong to other connections than c are all
\* in the list after the step.
OthersStay(c) ==
    \A k \in 1..Len(clients) : clients[k].conn # c => clients[k] \in Range(clients')

\* C25 as stated: a reader that has left its loop on a bad frame or a short
\* read removes its own connection only: its removeClient call erases no
\* other connection's entry, and it returns with the process running, so
\* that the other connections stay in the list.
C25_ReaderRemovesOnlyItsConnection ==
    [][\A c \in Conns :
          /\ (hpc[c] = "remove" /\ hpc'[c] # "remove") => OthersStay(c)
          /\ (hpc[c] = "join" /\ hpc'[c] # "join") => abort' = "none"]_vars

\* C26 as stated: the removeClient call the sender makes after the batch
\* for a descriptor whose send failed removes that connection only; the
\* entries of the other connections stay in the list.
C26_FailedWriteRemovesOnlyThatConnection ==
    [][(sendpc = "remove" /\ toRemove # <<>> /\ toRemove' = Tail(toRemove))
          => OthersStay(Head(toRemove).conn)]_vars


\* ------------------------------------------------------------ framing claims

\* The value a receiver reads from four bytes taken most significant first.
BigEndianValue(b) == ((b[1] * 256 + b[2]) * 256 + b[3]) * 256 + b[4]

\* The bytes on the wire are one frame carrying m: four bytes that read,
\* most significant first, as the length of m, and then the bytes of m.
IsFrameOf(w, m) ==
    /\ Len(w) = 4 + Len(m)
    /\ BigEndianValue(w) = Len(m)
    /\ \A i \in 1..Len(m) : w[4 + i] = m[i]

\* C22: when the write loop has finished a message of a length up to the
\* maximum frame size without a failed send, the socket has taken exactly
\* the 4-byte big-endian length of the message followed by its bytes.
C22_FrameIsPrefixThenPayload ==
    (fpc = "done" /\ Len(payload) <= BUFFER_SIZE) => IsFrameOf(wire, payload)

\* A message of the maximum frame size has been written in several sends.
C22_Witness ==
    /\ fpc = "done"
    /\ Len(payload) = BUFFER_SIZE
    /\ Len(wire) = 4 + BUFFER_SIZE

\* C23 as stated: a message whose length is at or above the maximum frame
\* size is never on the wire as one frame.
C23_OversizeNeverOneFrame ==
    Len(payload) >= BUFFER_SIZE => ~IsFrameOf(wire, payload)


\* ------------------------------------------------------------ event sink claims

\* C29: a postX call made while the bridge is not initialized (before
\* initialize, after cleanup) or has no listener returns with the event
\* queue, the task queue, the single-flight flag and every worker as they
\* were; an event enters the queue only on an initialized bridge with a
\* listener.
C29_PostOnShutDownBridgeIsNoOp ==
    [][\A p \in Producers :
          /\ (ppc[p] = "idle" /\ ~IsInitialized /\ ppc'[p] # "idle")
                => /\ ppc'[p] = "refused"
                   /\ UNCHANGED <<eventQueue, nextEvent, taskQueue, processingScheduled,
                                  wpc, wtask, wsnap, delivered>>
          /\ (ppc[p] = "refused" /\ ppc'[p] # "refused") => ppc'[p] = "idle"]_vars

\* A post was refused after cleanup, with workers waiting for tasks.
C29_Witness ==
    /\ \E p \in Producers : ppc[p] = "refused"
    /\ cleanups > 0
    /\ ~jvm
    /\ \E w \in Workers : wpc[w] = "blocked"

\* The events of failedIn.rest that the sink has been called with, in the
\* order of the calls.
DeliveredOfRest ==
    LET d == SelectSeq(delivered, LAMBDA r : r.ev \in Range(failedIn.rest))
    IN [i \in 1..Len(d) |-> d[i].ev]

\* C30: after a sink call that failed, the events that were behind it in
\* the same snapshot are delivered in snapshot order: those already
\* delivered are the first of them, and the others are what the worker's
\* delivery loop still holds.
C30_FailedDeliveryKeepsBatch ==
    failedIn # NoFailure =>
        LET rest == failedIn.rest
            k == Len(DeliveredOfRest)
        IN /\ k <= Len(rest)
           /\ DeliveredOfRest = SubSeq(rest, 1, k)
           /\ k < Len(rest) => wsnap[failedIn.w] = SubSeq(rest, k + 1, Len(rest))

\* A sink call failed with events behind it in the snapshot, and all of
\* them have been delivered since.
C30_Witness ==
    /\ failedIn # NoFailure
    /\ failedIn.rest # <<>>
    /\ Len(DeliveredOfRest) = Len(failedIn.rest)


\* ------------------------------------------------------------ registry claims

\* C27: a joinThread or detachThread call returns true exactly when the
\* index is valid and no join or detach has returned true for it before;
\* a call that returns false leaves the registry as it was.
C27_JoinDetachTrueOnceOnValidHandle ==
    [][lastCall' # lastCall =>
          /\ lastCall'.ret <=> (ValidIndex(lastCall'.idx) /\ lastCall'.idx \notin released)
          /\ ~lastCall'.ret => UNCHANGED registryState]_vars

\* A join has returned false on a handle that had been detached while its
\* thread was running, after a join or detach had returned true on another.
C27_Witness ==
    /\ lastCall = [op |-> "join", idx |-> 1, ret |-> FALSE]
    /\ released = {1, 2}
    /\ joinable[1] = FALSE
    /\ tstate[1] = "RUNNING"

\* The order of the states of a handle.
Rank(st) == CASE st = "CREATED" -> 0 [] st = "RUNNING" -> 1 [] st = "TERMINATED" -> 2

\* C28 as stated: the state of a handle only moves forward, CREATED to
\* RUNNING to TERMINATED; a handle whose state was TERMINATED is never
\* RUNNING or CREATED afterwards.
C28_StateOnlyMovesForward ==
    [][\A i \in Handles : ValidIndex(i) => Rank(tstate'[i]) >= Rank(tstate[i])]_vars

\* ------------------------------------------------------------ removal claims

\* No removal is in progress: no thread is inside removeClient.
NoRemovalInProgress ==
    /\ sendpc \notin {"remove", "join"}
    /\ \A c \in Conns : hpc[c] \notin {"remove", "join"}

\* C33 as stated: a reader that runs the removal of its connection at the
\* exit of its loop is never at a join of its own thread; the removal
\* completes and the process goes on.
C33_ReaderNeverJoinsItself ==
    \A c \in Conns : hpc[c] = "join" => ~JoinsItself(c)

\* C34 as stated: with the accept thread back in accept() and no removal in
\* progress, every connection in the list has its reader in the receive
\* loop; a connection whose reader has exited is not in the list (and not
\* counted).
C34_NoEntryWithoutReader ==
    (Live /\ acceptpc = "accept" /\ NoRemovalInProgress)
        => \A k \in 1..Len(clients) : hpc[clients[k].conn] # "exited"

\* C39 as stated: managerMutex_ is never held by a thread that waits for a
\* spawned task, so that createThread, detachThread and the queries, which
\* all take it, never wait for a task to finish.
C39_RegistryLockNotHeldAcrossJoin ==
    managerMutex # 0 => tpc[managerMutex] = "done"

\* ------------------------------------------------------------ drain scheduling claims

\* A drain is pending: the drain lambda is in the pool's task queue, or a
\* worker is executing it.
DrainPending ==
    \/ \E i \in 1..Len(taskQueue) : taskQueue[i].kind = "drain"
    \/ Draining # {}

\* C32 as stated: whenever processingScheduled_ is set, a drain is pending.
C32_FlagSetOnlyWithDrainPending ==
    processingScheduled => DrainPending

\* C38 as stated: every event is delivered to the listener that was
\* registered when it was posted.
C38_DeliveredToSinkOfPostTime ==
    \A i \in 1..Len(delivered) : delivered[i].sink = delivered[i].ev.listener

\* ------------------------------------------------------------ server race claims

\* C35 as stated: when no stopServer call is in progress and the server is
\* stopped, sendQueue_ is empty (so no later run finds a message of an
\* earlier one to send).
C35_QueueEmptyAfterStop ==
    (Live /\ srvpc = "idle" /\ ~isRunning) => sendQueue = <<>>

\* No thread of the server is on its way to change the list or to post a
\* count: the accept thread is in accept() or gone and no removal is in
\* progress.
Quiescent ==
    /\ Live
    /\ acceptpc \in {"none", "accept", "exited"}
    /\ NoRemovalInProgress

\* C36 as stated: once the server is quiescent, the count event last posted
\* carries the value connectedClientCount() returns.
C36_LastCountEventIsCurrent ==
    (Quiescent /\ countEvent # <<>>) => countEvent[1] = ConnectedClientCount

\* C37 as stated: while the running flag is set, the accept thread has not
\* left its loop.
C37_RunningServerHasAcceptThread ==
    (Live /\ isRunning) => acceptpc \notin {"none", "exited"}

\* ------------------------------------------------------------ reader claims

\* A frame the reader can take whole: a declared length from 1 to the
\* maximum frame size and all the bytes of the payload sent.
ValidFrame(f) == f.len >= 1 /\ f.len <= BUFFER_SIZE /\ Len(f.data) = f.len

\* The number of frames at the head of the peer's stream that are valid.
ValidPrefix ==
    CHOOSE n \in 0..Len(peerFrames) :
        /\ \A i \in 1..n : ValidFrame(peerFrames[i])
        /\ n < Len(peerFrames) => ~ValidFrame(peerFrames[n + 1])

\* The offset in the stream of the end of frame i.
RECURSIVE EndOf(_)
EndOf(i) == IF i = 0 THEN 0 ELSE EndOf(i - 1) + 4 + Len(peerFrames[i].data)

\* The number of valid frames recv has returned to the last byte.
FramesRead ==
    Cardinality({i \in 1..ValidPrefix : EndOf(i) <= rpos})

\* The event a frame is forwarded as.
SocketMessage(f) == [type |-> "STRING", eventId |-> "socket_message", data |-> f.data]

\* C31: the postStringEvent calls of the reader are, in order, one STRING
\* event "socket_message" for each valid frame it has read to the last
\* byte, carrying the frame's payload (the frame just read is forwarded by
\* the next step); and a reader that leaves its loop because the peer has
\* closed or has sent an invalid length has forwarded every valid frame the
\* peer sent before.
C31_ValidFramesForwardedOnceInOrder ==
    /\ Len(forwarded) = FramesRead - (IF rpc = "forward" THEN 1 ELSE 0)
    /\ \A i \in 1..Len(forwarded) : forwarded[i] = SocketMessage(peerFrames[i])
    /\ rpc \in {"closed", "invalid"} => Len(forwarded) = ValidPrefix

\* The peer has sent two different frames, one of the maximum size, and has
\* closed; the reader has forwarded both and left its loop.
C31_Witness ==
    /\ rpc = "closed"
    /\ Len(forwarded) = 2
    /\ forwarded[1].data # forwarded[2].data
    /\ \E i \in 1..2 : Len(forwarded[i].data) = BUFFER_SIZE

\* ------------------------------------------------------------ lock claims

\* The mutexes a thread holds.
Held(t) == {m \in Mutexes : owner[m] = t}

\* A thread that has not finished and can take its next step: its next
\* statement is an unlock, or the lock of a mutex that is free.
CanStep(t) ==
    \/ NextStatement(t).op = "unlock"
    \/ NextStatement(t).op = "lock" /\ owner[NextStatement(t).mutex] = NoThread

\* C40: no thread holds two of the five mutexes at once, and whenever a
\* thread has lock statements left, some thread can take a step (no
\* deadlock between these locks).
C40_NoThreadHoldsTwoLocks ==
    /\ \A t \in LockThreads : Cardinality(Held(t)) <= 1
    /\ (\E t \in LockThreads : NextStatement(t) # NoStatement)
           => \E t \in LockThreads : CanStep(t)

\* A reader that has gone through the event-queue lock and the pool's queue
\* lock holds the client-list lock in removeClient, while another thread
\* waits for that lock.
C40_Witness ==
    /\ owner[ClientsMutex] = "reader"
    /\ lpc["reader"] > Len(PostLocks)
    /\ \E t \in LockThreads \ {"reader"} : NextStatement(t) = LockOf(ClientsMutex)

============================================================================
